---- MODULE Spec2Model ----
(***************************************************************************)
(* A model of the gdbmi session core (src/gdbmi.go): caller tasks running  *)
(* gdbsend, the coordinator goroutine of startupGDB, the stdout reader     *)
(* parse_gdb_output, the publisher goroutines, and the debugger process    *)
(* as the environment.  Text is modelled as sequences of one-character     *)
(* strings so that formatting, matching and splitting are computed.        *)
(***************************************************************************)
EXTENDS Integers, Sequences, FiniteSets, TLC

(***************************************************************************)
(* Bounds of the model.                                                    *)
(***************************************************************************)
MaxCmds == 2
MaxOut == 2
MaxJunk == 1
MaxClose == 2
ClockStart == 9
\* the longest contents of a quoted string handed to the value parser
MaxText == 3
\* the most elements of a list, and fields of a tuple, handed to the value parser
MaxElems == 3

\* two caller tasks
Callers == {1, 2}

(***************************************************************************)
(* Text helpers: the Go standard library functions the source calls.       *)
(***************************************************************************)
Digits == <<"0", "1", "2", "3", "4", "5", "6", "7", "8", "9">>

IsDigit(ch) == \E i \in 1..10 : Digits[i] = ch

DigitVal(ch) == (CHOOSE i \in 1..10 : Digits[i] = ch) - 1

IsSpace(ch) == ch \in {" ", "\t", "\n", "\r"}

\* fmt.Sprintf("%d", n)
RECURSIVE ItoaNat(_)
ItoaNat(n) == IF n < 10 THEN <<Digits[n + 1]>>
              ELSE ItoaNat(n \div 10) \o <<Digits[(n % 10) + 1]>>

Itoa(n) == IF n < 0 THEN <<"-">> \o ItoaNat(0 - n) ELSE ItoaNat(n)

\* strconv.ParseInt(s, 10, 64) on a string of decimal digits
RECURSIVE ParseInt(_)
ParseInt(s) == IF s = <<>> THEN 0
               ELSE ParseInt(SubSeq(s, 1, Len(s) - 1)) * 10 + DigitVal(s[Len(s)])

\* the longest prefix of s made of decimal digits: the regexp group (\d*)
RECURSIVE DigitPrefixLen(_)
DigitPrefixLen(s) == IF s = <<>> \/ ~IsDigit(Head(s)) THEN 0
                     ELSE 1 + DigitPrefixLen(Tail(s))

\* bytes.TrimSpace
RECURSIVE TrimLeft(_)
TrimLeft(s) == IF s # <<>> /\ IsSpace(Head(s)) THEN TrimLeft(Tail(s)) ELSE s

RECURSIVE TrimRight(_)
TrimRight(s) == IF s # <<>> /\ IsSpace(s[Len(s)])
                THEN TrimRight(SubSeq(s, 1, Len(s) - 1)) ELSE s

TrimSpace(s) == TrimRight(TrimLeft(s))

\* strings.HasPrefix
HasPrefix(s, p) == Len(s) >= Len(p) /\ SubSeq(s, 1, Len(p)) = p

\* strings.Contains: an unanchored regexp of literal characters
Contains(s, p) == \E i \in 1..(Len(s) - Len(p) + 1) : SubSeq(s, i, i + Len(p) - 1) = p

\* the position of the first occurrence of ch in s, 0 when there is none
IndexOf(s, ch) == IF \E i \in 1..Len(s) : s[i] = ch
                  THEN CHOOSE i \in 1..Len(s) : s[i] = ch /\ \A j \in 1..(i - 1) : s[j] # ch
                  ELSE 0

\* strings.Split(s, sep) for a one-character separator
RECURSIVE Split(_, _)
Split(s, ch) == LET i == IndexOf(s, ch)
                IN  IF i = 0 THEN <<s>>
                    ELSE <<SubSeq(s, 1, i - 1)>> \o Split(SubSeq(s, i + 1, Len(s)), ch)

\* strings.SplitN(s, sep, 2)
SplitN2(s, ch) == LET i == IndexOf(s, ch)
                  IN  IF i = 0 THEN <<s>>
                      ELSE <<SubSeq(s, 1, i - 1), SubSeq(s, i + 1, Len(s))>>

\* strings.Join(parts, " ")
RECURSIVE JoinSpace(_)
JoinSpace(parts) == IF parts = <<>> THEN <<>>
                    ELSE IF Len(parts) = 1 THEN parts[1]
                    ELSE parts[1] \o <<" ">> \o JoinSpace(Tail(parts))

(***************************************************************************)
(* Words of the protocol.                                                  *)
(***************************************************************************)
W_gdb == <<"(", "g", "d", "b", ")">>
W_done == <<"d", "o", "n", "e">>
W_running == <<"r", "u", "n", "n", "i", "n", "g">>
W_connected == <<"c", "o", "n", "n", "e", "c", "t", "e", "d">>
W_error == <<"e", "r", "r", "o", "r">>
W_exit == <<"e", "x", "i", "t">>
W_exec_next == <<"e", "x", "e", "c", "-", "n", "e", "x", "t">>
W_msg == <<"m", "s", "g", "=", "\"", "m", "\"">>

(***************************************************************************)
(* Line classifier: the regular expressions of gdb_responses.              *)
(***************************************************************************)
\* gdb_responses in source order.  tok says whether the expression starts
\* with the (?P<token>\d*) group.
gdb_responses == <<
    [kind |-> "result", ch |-> "^", tok |-> TRUE],
    [kind |-> "console", ch |-> "~", tok |-> FALSE],
    [kind |-> "target", ch |-> "@", tok |-> FALSE],
    [kind |-> "log", ch |-> "&", tok |-> FALSE],
    [kind |-> "async", ch |-> "=", tok |-> TRUE],
    [kind |-> "async", ch |-> "*", tok |-> TRUE],
    [kind |-> "async", ch |-> "+", tok |-> TRUE]>>

\* gdb_output.Match
Match(p, s) == LET n == IF p.tok THEN DigitPrefixLen(s) ELSE 0
               IN  Len(s) > n /\ s[n + 1] = p.ch

\* gdb_delim.Match: the expression \(gdb\) is not anchored
DelimMatch(s) == Contains(s, W_gdb)

\* gdb_response_type.Fill applied to gdb_output.fields: the token stays 0
\* when the token group is missing or empty
Fill(p, s) == LET n == IF p.tok THEN DigitPrefixLen(s) ELSE 0
              IN  [token |-> IF n > 0 THEN ParseInt(SubSeq(s, 1, n)) ELSE 0,
                   line |-> SubSeq(s, n + 2, Len(s))]

\* gdb_output.Create; src is the ordinal of the stdout line (history only)
Create(p, s, src) == [kind |-> p.kind, token |-> Fill(p, s).token,
                      line |-> Fill(p, s).line, src |-> src]

\* the responses parse_gdb_output forwards for one line read from stdout
RECURSIVE MatchesFrom(_, _, _)
MatchesFrom(i, s, src) ==
    IF i > Len(gdb_responses) THEN <<>>
    ELSE (IF Match(gdb_responses[i], s) THEN <<Create(gdb_responses[i], s, src)>> ELSE <<>>)
         \o MatchesFrom(i + 1, s, src)

LineResponses(ln, src) ==
    LET sline == TrimSpace(ln)
    IN  IF DelimMatch(sline) THEN <<>>
        ELSE IF MatchesFrom(1, sline, src) # <<>> THEN MatchesFrom(1, sline, src)
        ELSE <<[kind |-> "target", token |-> 0, line |-> sline, src |-> src]>>

(***************************************************************************)
(* Result decoder.                                                         *)
(***************************************************************************)
Result_done == 0
Result_running == 1
Result_connected == 2
Result_error == 3
Result_exit == 4

EmptyText == <<>>

\* a decoder without the branch for the error class
createResultNoError(line) ==
    LET parts == SplitN2(line, ",")
        rest == IF Len(parts) > 1 THEN parts[2] ELSE EmptyText
    IN  IF HasPrefix(line, W_done)
        THEN [ok |-> TRUE, Type |-> Result_done, Results |-> rest, ErrorMessage |-> EmptyText]
        ELSE IF HasPrefix(line, W_running)
        THEN [ok |-> TRUE, Type |-> Result_running, Results |-> EmptyText, ErrorMessage |-> EmptyText]
        ELSE IF HasPrefix(line, W_connected)
        THEN [ok |-> TRUE, Type |-> Result_connected, Results |-> EmptyText, ErrorMessage |-> EmptyText]
        ELSE IF HasPrefix(line, W_exit)
        THEN [ok |-> TRUE, Type |-> Result_exit, Results |-> EmptyText, ErrorMessage |-> EmptyText]
        ELSE [ok |-> FALSE, Type |-> Result_done, Results |-> EmptyText, ErrorMessage |-> EmptyText]

createResult(line) ==
    LET parts == SplitN2(line, ",")
        rest == IF Len(parts) > 1 THEN parts[2] ELSE EmptyText
    IN  IF HasPrefix(line, W_done)
        THEN [ok |-> TRUE, Type |-> Result_done, Results |-> rest, ErrorMessage |-> EmptyText]
        ELSE IF HasPrefix(line, W_running)
        THEN [ok |-> TRUE, Type |-> Result_running, Results |-> EmptyText, ErrorMessage |-> EmptyText]
        ELSE IF HasPrefix(line, W_connected)
        THEN [ok |-> TRUE, Type |-> Result_connected, Results |-> EmptyText, ErrorMessage |-> EmptyText]
        ELSE IF HasPrefix(line, W_error)
        THEN [ok |-> TRUE, Type |-> Result_error, Results |-> EmptyText, ErrorMessage |-> rest]
        ELSE IF HasPrefix(line, W_exit)
        THEN [ok |-> TRUE, Type |-> Result_exit, Results |-> EmptyText, ErrorMessage |-> EmptyText]
        ELSE [ok |-> FALSE, Type |-> Result_done, Results |-> EmptyText, ErrorMessage |-> EmptyText]

\* what gdbsend returns for a response: (result, nil) or (nil, error)
gdbsendReturn(rsp) ==
    LET r == createResult(rsp.line)
    IN  IF ~r.ok THEN [err |-> TRUE, msg |-> rsp.line, Type |-> -1, Results |-> EmptyText]
        ELSE IF r.Type = Result_error
        THEN [err |-> TRUE, msg |-> r.ErrorMessage, Type |-> r.Type, Results |-> EmptyText]
        ELSE [err |-> FALSE, msg |-> EmptyText, Type |-> r.Type, Results |-> r.Results]

(***************************************************************************)
(* Command encoder.                                                        *)
(***************************************************************************)
\* gdb_command.dump_mi: fmt.Sprintf("%d-%s %s %s", token, cmd, options, parameters)
dump_mi(c) == Itoa(c.token) \o <<"-">> \o c.cmd \o <<" ">> \o JoinSpace(c.options)
              \o <<" ">> \o JoinSpace(c.parameter)

(***************************************************************************)
(* Async decoder.                                                          *)
(***************************************************************************)
\* The const block of GDBAsyncType and GDBStopReason shares one iota with
\* the breakpoint constants before it: Async_unknown is the fifth constant.
Async_unknown == 4
Async_stopped_breakpoint_hit == 27

\* the names init() registers in allAsyncTypes, in the order of the const block
AsyncNames == <<
    <<"r", "u", "n", "n", "i", "n", "g">>,
    <<"s", "t", "o", "p", "p", "e", "d">>,
    <<"t", "h", "r", "e", "a", "d", "-", "g", "r", "o", "u", "p", "-", "a", "d", "d", "e", "d">>,
    <<"t", "h", "r", "e", "a", "d", "-", "g", "r", "o", "u", "p", "-", "r", "e", "m", "o", "v", "e", "d">>,
    <<"t", "h", "r", "e", "a", "d", "-", "g", "r", "o", "u", "p", "-", "s", "t", "a", "r", "t", "e", "d">>,
    <<"t", "h", "r", "e", "a", "d", "-", "g", "r", "o", "u", "p", "-", "e", "x", "i", "t", "e", "d">>,
    <<"t", "h", "r", "e", "a", "d", "-", "c", "r", "e", "a", "t", "e", "d">>,
    <<"t", "h", "r", "e", "a", "d", "-", "e", "x", "i", "t", "e", "d">>,
    <<"t", "h", "r", "e", "a", "d", "-", "s", "e", "l", "e", "c", "t", "e", "d">>,
    <<"l", "i", "b", "r", "a", "r", "y", "-", "l", "o", "a", "d", "e", "d">>,
    <<"l", "i", "b", "r", "a", "r", "y", "-", "u", "n", "l", "o", "a", "d", "e", "d">>,
    <<"t", "r", "a", "c", "e", "f", "r", "a", "m", "e", "-", "c", "h", "a", "n", "g", "e", "d">>,
    <<"t", "s", "v", "-", "c", "r", "e", "a", "t", "e", "d">>,
    <<"t", "s", "v", "-", "d", "e", "l", "e", "t", "e", "d">>,
    <<"t", "s", "v", "-", "m", "o", "d", "i", "f", "i", "e", "d">>,
    <<"b", "r", "e", "a", "k", "p", "o", "i", "n", "t", "-", "c", "r", "e", "a", "t", "e", "d">>,
    <<"b", "r", "e", "a", "k", "p", "o", "i", "n", "t", "-", "m", "o", "d", "i", "f", "i", "e", "d">>,
    <<"b", "r", "e", "a", "k", "p", "o", "i", "n", "t", "-", "d", "e", "l", "e", "t", "e", "d">>,
    <<"r", "e", "c", "o", "r", "d", "-", "s", "t", "a", "r", "t", "e", "d">>,
    <<"r", "e", "c", "o", "r", "d", "-", "s", "t", "o", "p", "p", "e", "d">>,
    <<"c", "m", "d", "-", "p", "a", "r", "a", "m", "-", "c", "h", "a", "n", "g", "e", "d">>,
    <<"m", "e", "m", "o", "r", "y", "-", "c", "h", "a", "n", "g", "e", "d">>>>

\* the names init() registers in allStopReasons, in the order of the const block
StopNames == <<
    <<"b", "r", "e", "a", "k", "p", "o", "i", "n", "t", "-", "h", "i", "t">>,
    <<"w", "a", "t", "c", "h", "p", "o", "i", "n", "t", "-", "t", "r", "i", "g", "g", "e", "r">>,
    <<"r", "e", "a", "d", "-", "w", "a", "t", "c", "h", "p", "o", "i", "n", "t", "-", "t", "r", "i", "g", "g", "e", "r">>,
    <<"a", "c", "c", "e", "s", "s", "-", "w", "a", "t", "c", "h", "p", "o", "i", "n", "t", "-", "t", "r", "i", "g", "g", "e", "r">>,
    <<"f", "u", "n", "c", "t", "i", "o", "n", "-", "f", "i", "n", "i", "s", "h", "e", "d">>,
    <<"l", "o", "c", "a", "t", "i", "o", "n", "-", "r", "e", "a", "c", "h", "e", "d">>,
    <<"w", "a", "t", "c", "h", "p", "o", "i", "n", "t", "-", "s", "c", "o", "p", "e">>,
    <<"e", "n", "d", "-", "s", "t", "e", "p", "p", "i", "n", "g", "-", "r", "a", "n", "g", "e">>,
    <<"e", "x", "i", "t", "e", "d", "-", "s", "i", "g", "n", "a", "l", "l", "e", "d">>,
    <<"e", "x", "i", "t", "e", "d">>,
    <<"e", "x", "i", "t", "e", "d", "-", "n", "o", "r", "m", "a", "l", "l", "y">>,
    <<"s", "i", "g", "n", "a", "l", "-", "r", "e", "c", "e", "i", "v", "e", "d">>,
    <<"s", "o", "l", "i", "b", "-", "e", "v", "e", "n", "t">>,
    <<"f", "o", "r", "k">>,
    <<"v", "f", "o", "r", "k">>,
    <<"s", "y", "s", "c", "a", "l", "l", "-", "e", "n", "t", "r", "y">>,
    <<"e", "x", "e", "c">>>>

K_thread_id == <<"t", "h", "r", "e", "a", "d", "-", "i", "d">>
K_stopped_threads == <<"s", "t", "o", "p", "p", "e", "d", "-", "t", "h", "r", "e", "a", "d", "s">>
K_core == <<"c", "o", "r", "e">>
K_reason == <<"r", "e", "a", "s", "o", "n">>
K_id == <<"i", "d">>
K_pid == <<"p", "i", "d">>
K_exit_code == <<"e", "x", "i", "t", "-", "c", "o", "d", "e">>
K_gid == <<"g", "i", "d">>
K_num == <<"n", "u", "m">>
K_tracepoint == <<"t", "r", "a", "c", "e", "p", "o", "i", "n", "t">>
K_name == <<"n", "a", "m", "e">>
K_initial == <<"i", "n", "i", "t", "i", "a", "l">>
K_current == <<"c", "u", "r", "r", "e", "n", "t">>
K_thread_group == <<"t", "h", "r", "e", "a", "d", "-", "g", "r", "o", "u", "p">>
K_param == <<"p", "a", "r", "a", "m">>
K_value == <<"v", "a", "l", "u", "e">>
K_addr == <<"a", "d", "d", "r">>
K_len == <<"l", "e", "n">>
K_type == <<"t", "y", "p", "e">>
W_running_thread_id == <<"r", "u", "n", "n", "i", "n", "g", ",", "t", "h", "r", "e", "a", "d", "-", "i", "d", "=", "\"">>

Async_running == Async_unknown + 1
Async_stopped == Async_unknown + 2
Async_thread_group_added == Async_unknown + 3
Async_thread_group_removed == Async_unknown + 4
Async_thread_group_started == Async_unknown + 5
Async_thread_group_exited == Async_unknown + 6
Async_thread_created == Async_unknown + 7
Async_thread_exited == Async_unknown + 8
Async_thread_selected == Async_unknown + 9
Async_library_loaded == Async_unknown + 10
Async_library_unloaded == Async_unknown + 11
Async_traceframe_changed == Async_unknown + 12
Async_tsv_created == Async_unknown + 13
Async_tsv_deleted == Async_unknown + 14
Async_tsv_modified == Async_unknown + 15
Async_breakpoint_created == Async_unknown + 16
Async_breakpoint_modified == Async_unknown + 17
Async_breakpoint_deleted == Async_unknown + 18
Async_record_started == Async_unknown + 19
Async_record_stopped == Async_unknown + 20
Async_cmd_param_changed == Async_unknown + 21
Async_memory_changed == Async_unknown + 22

\* asyncTypeFromString: AsyncTypeWithName, Async_unknown when the name is not registered
asyncTypeFromString(tp) ==
    IF \E i \in 1..Len(AsyncNames) : AsyncNames[i] = tp
    THEN Async_unknown + (CHOOSE i \in 1..Len(AsyncNames) : AsyncNames[i] = tp)
    ELSE Async_unknown

\* GDBAsyncType.String: the registered name, "" for a type that has none
AsyncTypeString(t) ==
    IF t - Async_unknown \in 1..Len(AsyncNames) THEN AsyncNames[t - Async_unknown] ELSE EmptyText

\* stop reasons numbered by an iota of their own: breakpoint-hit is 0
StopReasonFromZero(n) == (CHOOSE i \in 1..Len(StopNames) : StopNames[i] = n) - 1

\* StopReasonWithName
StopReasonKnown(n) == \E i \in 1..Len(StopNames) : StopNames[i] = n

StopReasonWithName(n) ==
    Async_stopped_breakpoint_hit - 1 + (CHOOSE i \in 1..Len(StopNames) : StopNames[i] = n)

\* splitKVList panics on a part without "=" (kv[1] is out of range) and on a
\* value shorter than two bytes (the slice [1 : len-1] is out of range)
KVPartPanics(p) == LET kv == Split(p, "=")
                   IN  Len(kv) < 2 \/ Len(kv[2]) < 2

splitKVListPanics(kvlist) ==
    LET parts == Split(kvlist, ",")
    IN  \E i \in 1..Len(parts) : KVPartPanics(parts[i])

\* splitKVList: the map as a sequence of <<key, value>> in input order; a
\* later pair with the same key replaces an earlier one on lookup
splitKVList(kvlist) ==
    LET parts == Split(kvlist, ",")
    IN  [i \in 1..Len(parts) |->
            LET kv == Split(parts[i], "=")
            IN  <<kv[1], SubSeq(kv[2], 2, Len(kv[2]) - 1)>>]

HasKey(params, k) == \E i \in 1..Len(params) : params[i][1] = k

\* params[k]: the value of the last pair with key k, "" when the key is missing
Param(params, k) ==
    IF HasKey(params, k)
    THEN params[CHOOSE i \in 1..Len(params) :
                    params[i][1] = k /\ \A j \in (i + 1)..Len(params) : params[j][1] # k][2]
    ELSE EmptyText

\* fmt.Sscanf(s, "%d", &n): the leading decimal number of s, 0 (n untouched)
\* when s does not start with one
ScanInt(s) == LET neg == s # <<>> /\ Head(s) = "-"
                  body == IF s # <<>> /\ Head(s) \in {"-", "+"} THEN Tail(s) ELSE s
                  n == DigitPrefixLen(body)
              IN  IF n = 0 THEN 0
                  ELSE IF neg THEN 0 - ParseInt(SubSeq(body, 1, n))
                  ELSE ParseInt(SubSeq(body, 1, n))

\* the position of the last occurrence of ch in s, 0 when there is none
LastIndexOf(s, ch) == IF \E i \in 1..Len(s) : s[i] = ch
                      THEN CHOOSE i \in 1..Len(s) : s[i] = ch /\ \A j \in (i + 1)..Len(s) : s[j] # ch
                      ELSE 0

\* async_running_line.ReplaceAllString(line, "$1"): the expression
\* running,thread-id="(.*)" is greedy and not anchored
asyncRunningThreadId(line) ==
    LET P == W_running_thread_id
        starts == {i \in 1..(Len(line) - Len(P) + 1) : SubSeq(line, i, i + Len(P) - 1) = P}
    IN  IF starts = {} THEN line
        ELSE LET i == CHOOSE x \in starts : \A y \in starts : x <= y
                 q == LastIndexOf(line, "\"")
             IN  IF q < i + Len(P) THEN line
                 ELSE SubSeq(line, 1, i - 1) \o SubSeq(line, i + Len(P), q - 1)
                      \o SubSeq(line, q + 1, Len(line))

\* var result GDBEvent: every field at its zero value
ZeroEvent == [Type |-> 0, StopReason |-> 0, ThreadId |-> EmptyText,
              ThreadGroupid |-> EmptyText, StoppedThreads |-> EmptyText,
              StopCore |-> EmptyText, Pid |-> 0, ExitCode |-> 0,
              TraceFrameNumber |-> 0, TracePointNumber |-> 0,
              TsvName |-> EmptyText, TsvValue |-> EmptyText, TsvInitial |-> EmptyText,
              CmdParam |-> EmptyText, CmdValue |-> EmptyText,
              MemoryAddress |-> 0, MemoryLen |-> 0, MemoryTypeCode |-> FALSE,
              BreakpointNumber |-> EmptyText]

\* createAsync: st is "ok" (an event), "err" (an error is returned) or
\* "panic" (a slice or index out of range ends the process)
createAsync(line) ==
    LET toks == SplitN2(line, ",")
        Type == asyncTypeFromString(toks[1])
        cut == Len(AsyncTypeString(Type)) + 1
        sub == SubSeq(line, cut + 1, Len(line))
        params == splitKVList(sub)
        base == [ZeroEvent EXCEPT !.Type = Type]
        Ok(e) == [st |-> "ok", ev |-> e]
    IN  IF cut > Len(line) \/ splitKVListPanics(sub) THEN [st |-> "panic", ev |-> base]
        ELSE IF Type = Async_running
        THEN Ok([base EXCEPT !.ThreadId = asyncRunningThreadId(line)])
        ELSE IF Type = Async_stopped
        THEN IF ~StopReasonKnown(Param(params, K_reason)) THEN [st |-> "err", ev |-> base]
             ELSE Ok([base EXCEPT !.ThreadId = Param(params, K_thread_id),
                                  !.StoppedThreads = Param(params, K_stopped_threads),
                                  !.StopCore = Param(params, K_core),
                                  !.StopReason = StopReasonWithName(Param(params, K_reason))])
        ELSE IF Type = Async_thread_group_started
        THEN Ok([base EXCEPT !.ThreadGroupid = Param(params, K_id),
                             !.Pid = ScanInt(Param(params, K_pid))])
        ELSE IF Type = Async_thread_group_exited
        THEN Ok([base EXCEPT !.ThreadGroupid = Param(params, K_id),
                             !.ExitCode = ScanInt(Param(params, K_exit_code))])
        ELSE IF Type \in {Async_thread_exited, Async_thread_created, Async_thread_selected}
        THEN Ok([base EXCEPT !.ThreadId = Param(params, K_id),
                             !.ThreadGroupid = Param(params, K_gid)])
        ELSE IF Type \in {Async_thread_group_added, Async_thread_group_removed}
        THEN Ok([base EXCEPT !.ThreadGroupid = Param(params, K_id)])
        ELSE IF Type \in {Async_library_loaded, Async_library_unloaded}
        THEN Ok(base)
        ELSE IF Type = Async_traceframe_changed
        THEN Ok([base EXCEPT !.TraceFrameNumber = ScanInt(Param(params, K_num)),
                             !.TracePointNumber = ScanInt(Param(params, K_tracepoint))])
        ELSE IF Type \in {Async_tsv_created, Async_tsv_deleted, Async_tsv_modified}
        THEN Ok([base EXCEPT !.TsvName = Param(params, K_name),
                             !.TsvInitial = Param(params, K_initial),
                             !.TsvValue = Param(params, K_current)])
        ELSE IF Type \in {Async_record_started, Async_record_stopped}
        THEN Ok([base EXCEPT !.ThreadGroupid = Param(params, K_thread_group)])
        ELSE IF Type = Async_cmd_param_changed
        THEN Ok([base EXCEPT !.CmdParam = Param(params, K_param),
                             !.CmdValue = Param(params, K_value)])
        ELSE IF Type = Async_memory_changed
        \* Sscanf is handed the int fields by value, not by address: it
        \* fails and MemoryAddress and MemoryLen keep their zero value
        THEN Ok([base EXCEPT !.ThreadGroupid = Param(params, K_thread_group),
                             !.MemoryTypeCode = HasKey(params, K_type)])
        ELSE [st |-> "err", ev |-> base]

(***************************************************************************)
(* Value parser.  The parser reads its input through a text/scanner        *)
(* Scanner in its default mode (GoTokens, GoWhitespace).                   *)
(***************************************************************************)
\* the letters of the inputs (lower case) and the underscore
Letters == {"a", "b", "c", "d", "e", "f", "g", "h", "i", "j", "k", "l", "m", "n", "o",
            "p", "q", "r", "s", "t", "u", "v", "w", "x", "y", "z", "_"}

\* Scanner.isIdentRune: a letter or the underscore, or a digit behind the
\* first character
IsIdentRune(ch) == ch \in Letters \/ IsDigit(ch)

\* the characters scanEscape accepts behind a backslash in a string
EscapeRunes == {"a", "b", "f", "n", "r", "t", "v", "\\", "\""}

\* scanIdentifier: the position behind the identifier that holds position i
RECURSIVE IdentEnd(_, _)
IdentEnd(s, i) == IF i <= Len(s) /\ IsIdentRune(s[i]) THEN IdentEnd(s, i + 1) ELSE i

\* scanNumber on a decimal integer: the position behind its digits
RECURSIVE NumberEnd(_, _)
NumberEnd(s, i) == IF i <= Len(s) /\ IsDigit(s[i]) THEN NumberEnd(s, i + 1) ELSE i

\* scanString, from a position i behind the opening quote: the position
\* behind the token.  The token ends behind the closing quote; a literal
\* that is not terminated ends behind the newline or at the end of the
\* input (the error is printed and scanning goes on).
RECURSIVE StringEnd(_, _)
StringEnd(s, i) ==
    IF i > Len(s) THEN i
    ELSE IF s[i] \in {"\"", "\n"} THEN i + 1
    ELSE IF s[i] = "\\" /\ i + 1 <= Len(s) /\ s[i + 1] \in EscapeRunes
    THEN StringEnd(s, i + 2)
    ELSE StringEnd(s, i + 1)

\* Scanner.Scan at a position that holds no white space: the position behind
\* the token.  Every character that starts no identifier, number or string
\* is a token of its own.
TokenEnd(s, i) ==
    IF s[i] \in Letters THEN IdentEnd(s, i)
    ELSE IF IsDigit(s[i]) THEN NumberEnd(s, i)
    ELSE IF s[i] = "\"" THEN StringEnd(s, i + 1)
    ELSE i + 1

\* the TokenText of the successive calls of Scan on the input s, from
\* position i to the end of the input
RECURSIVE ScanFrom(_, _)
ScanFrom(s, i) ==
    IF i > Len(s) THEN <<>>
    ELSE IF IsSpace(s[i]) THEN ScanFrom(s, i + 1)
    ELSE <<SubSeq(s, i, TokenEnd(s, i) - 1)>> \o ScanFrom(s, TokenEnd(s, i))

\* s.Init(strings.NewReader(input)): the tokens of the input
ScannerInit(input) == ScanFrom(input, 1)

\* s.Scan(); s.TokenText() for the p-th call of Scan: at the end of the input
\* the token text is empty
TokenText(toks, p) == IF p <= Len(toks) THEN toks[p] ELSE EmptyText

\* the values of the parser: a Go string, a gdbStruct, a []interface{} or
\* the nil interface
StringValue(x) == [t |-> "string", s |-> x]
StructValue(m) == [t |-> "gdbStruct", m |-> m]
ArrayValue(a) == [t |-> "array", a |-> a]
NilValue == [t |-> "nil"]

\* the outcome of a parsing function: a value and the number of the next
\* call of Scan, a panic, or a loop that never ends
Parsed(val, p) == [st |-> "ok", val |-> val, pos |-> p]
ParsePanic == [st |-> "panic"]
ParseLoop == [st |-> "loop"]

\* result[key] = val
MapPut(m, k, v) == [x \in DOMAIN m \cup {k} |-> IF x = k THEN v ELSE m[x]]

\* createAnonymousStruct
createAnonymousStruct(key, val) == StructValue(MapPut(<<>>, key, val))

\* the concatenation of the texts of a sequence
RECURSIVE ConcatAll(_)
ConcatAll(ts) == IF ts = <<>> THEN EmptyText ELSE Head(ts) \o ConcatAll(Tail(ts))

\* parseStruct, lines 30 to 38: the number of the call of Scan that returns
\* the first "=" behind the first token of the key, 0 when there is none
AssignPos(toks, p) ==
    IF \E j \in (p + 1)..Len(toks) : toks[j] = <<"=">>
    THEN CHOOSE j \in (p + 1)..Len(toks) :
            toks[j] = <<"=">> /\ \A i \in (p + 1)..(j - 1) : toks[i] # <<"=">>
    ELSE 0

\* a key of parseStruct made of the first token only
structKeyFirstToken(toks, p, j) == TokenText(toks, p)

\* parseStruct, lines 30 to 38: key = key + assign for every token in front
\* of the "="
structKey(toks, p, j) == ConcatAll(SubSeq(toks, p, j - 1))

\* parseValue, lines 72 to 76, on a token text that is not empty: a token
\* that starts with a quote loses its first and its last character
\* (a slice [1:0] of a token that is the quote alone panics)
tokenValue(tt) ==
    IF tt[1] = "\""
    THEN IF Len(tt) < 2 THEN ParsePanic
         ELSE [st |-> "ok", val |-> StringValue(SubSeq(tt, 2, Len(tt) - 1))]
    ELSE [st |-> "ok", val |-> StringValue(tt)]

RECURSIVE parseValue(_, _)
RECURSIVE struct_loop(_, _, _)
RECURSIVE array_loop(_, _, _)

\* parseStruct: the struct_loop, with the map built so far.  The loop over
\* the tokens of the key has no exit at the end of the input, where every
\* Scan returns the empty token text: it never ends.
struct_loop(toks, p, result) ==
    LET j == AssignPos(toks, p)
        val == parseValue(toks, j + 1)
        filled == MapPut(result, structKey(toks, p, j), val.val)
    IN  IF j = 0 THEN ParseLoop
        ELSE IF val.st # "ok" THEN val
        ELSE IF TokenText(toks, val.pos) = <<"}">>
        THEN Parsed(StructValue(filled), val.pos + 1)
        ELSE struct_loop(toks, val.pos + 1, filled)

parseStruct(toks, p) == struct_loop(toks, p, <<>>)

\* parseArray: the loop, entered with the outcome of val := parseValue(s)
\* and the slice built so far
array_loop(toks, cur, result) ==
    IF cur.st # "ok" THEN cur
    ELSE IF cur.val.t = "nil" THEN Parsed(ArrayValue(result), cur.pos)
    ELSE LET nextval == parseValue(toks, cur.pos)
             elem == parseValue(toks, nextval.pos)
         IN  IF nextval.st # "ok" THEN nextval
             ELSE IF nextval.val.t = "string" /\ nextval.val.s = <<"=">>
             THEN IF elem.st # "ok" THEN elem
                  \* keyval := val.(string)
                  ELSE IF cur.val.t # "string" THEN ParsePanic
                  ELSE array_loop(toks, parseValue(toks, elem.pos),
                                  Append(result, createAnonymousStruct(cur.val.s, elem.val)))
             ELSE array_loop(toks, nextval, Append(result, cur.val))

parseArray(toks, p) == array_loop(toks, parseValue(toks, p), <<>>)

\* parseValue: btt[0] of the empty token text at the end of the input panics
parseValue(toks, p) ==
    LET tt == TokenText(toks, p)
    IN  IF tt = <<"{">> THEN parseStruct(toks, p + 1)
        ELSE IF tt = <<"[">> THEN parseArray(toks, p + 1)
        ELSE IF tt = <<"]">> THEN Parsed(NilValue, p + 1)
        ELSE IF tt = <<"=">> THEN Parsed(StringValue(<<"=">>), p + 1)
        ELSE IF tt = <<",">> THEN parseValue(toks, p + 1)
        ELSE IF tt = EmptyText THEN ParsePanic
        ELSE IF tokenValue(tt).st # "ok" THEN ParsePanic
        ELSE Parsed(tokenValue(tt).val, p + 1)

\* parseStructure: parseValue(&s).(gdbStruct)
parseStructure(input) ==
    LET r == parseValue(ScannerInit(input), 1)
    IN  IF r.st = "ok" /\ r.val.t # "gdbStruct" THEN ParsePanic ELSE r

\* parseStructureArray: parseValue(&s).([]interface{})
parseStructureArray(input) ==
    LET r == parseValue(ScannerInit(input), 1)
    IN  IF r.st = "ok" /\ r.val.t # "array" THEN ParsePanic ELSE r

(***************************************************************************)
(* Command encoder: the options and parameters of a command.               *)
(***************************************************************************)
\* a pointer argument: nil, or a pointer to the value x
NilPointer == [nil |-> TRUE]
PointerTo(x) == [nil |-> FALSE, v |-> x]

\* gdb_command.add_param
add_param(c, p) == [c EXCEPT !.parameter = Append(@, p)]

\* gdb_command.add_option_stringvalue: fmt.Sprintf("-%s %s", opt, *optparam)
add_option_stringvalue(c, opt, optparam) ==
    IF optparam.nil THEN c
    ELSE [c EXCEPT !.options = Append(@, <<"-">> \o opt \o <<" ">> \o optparam.v)]

\* gdb_command.add_option_intvalue: fmt.Sprintf("-%s %d", opt, *optparam)
add_option_intvalue(c, opt, optparam) ==
    IF optparam.nil THEN c
    ELSE [c EXCEPT !.options = Append(@, <<"-">> \o opt \o <<" ">> \o Itoa(optparam.v))]

\* gdb_command.add_option: fmt.Sprintf("-%s", opt)
add_option(c, opt) == [c EXCEPT !.options = Append(@, <<"-">> \o opt)]

\* gdb_command.add_option_when
add_option_when(c, flg, opt) == IF flg THEN add_option(c, opt) ELSE c

W_exec_run == <<"e", "x", "e", "c", "-", "r", "u", "n">>
W_break_insert == <<"b", "r", "e", "a", "k", "-", "i", "n", "s", "e", "r",
    "t">>
W_environment_directory == <<"e", "n", "v", "i", "r", "o", "n", "m", "e",
    "n", "t", "-", "d", "i", "r", "e", "c", "t", "o", "r", "y">>
W_environment_path == <<"e", "n", "v", "i", "r", "o", "n", "m", "e", "n",
    "t", "-", "p", "a", "t", "h">>
W_environment_pwd == <<"e", "n", "v", "i", "r", "o", "n", "m", "e", "n",
    "t", "-", "p", "w", "d">>
O_all == <<"-", "-", "a", "l", "l">>
O_thread_group == <<"-", "-", "t", "h", "r", "e", "a", "d", "-", "g", "r",
    "o", "u", "p">>
P_source_path == <<"s", "o", "u", "r", "c", "e", "-", "p", "a", "t", "h",
    "=">>
P_path == <<"p", "a", "t", "h", "=">>
P_cwd == <<"c", "w", "d", "=">>
P_bkpt == <<"b", "k", "p", "t", "=">>

\* Exec_run: the options it adds to the command c of newCommand("exec-run")
Exec_run_command(c, all, threadgroup) ==
    add_option_intvalue(IF all THEN add_option(c, O_all) ELSE c, O_thread_group, threadgroup)

\* Break_insert: the parameter and the options it adds to the command c of
\* newCommand("break-insert"); flags holds the five boolean arguments
Break_insert_command(c, location, flags, condition, ignorecount, threadid) ==
    LET c1 == add_param(c, location)
        c2 == add_option_when(c1, flags["istemp"], <<"-", "t">>)
        c3 == add_option_when(c2, flags["ishw"], <<"-", "h">>)
        c4 == add_option_when(c3, flags["createpending"], <<"-", "f">>)
        c5 == add_option_when(c4, flags["disabled"], <<"-", "d">>)
        c6 == add_option_when(c5, flags["tracepoint"], <<"-", "a">>)
        c7 == add_option_stringvalue(c6, <<"-", "c">>, condition)
        c8 == add_option_intvalue(c7, <<"-", "i">>, ignorecount)
    IN  add_option_intvalue(c8, <<"-", "p">>, threadid)

\* environment_path_query: the option and the quoted parameters it adds to
\* the command c of newCommand(gfunc)
RECURSIVE add_quoted_params(_, _)
add_quoted_params(c, dirs) ==
    IF dirs = <<>> THEN c
    ELSE add_quoted_params(add_param(c, <<"\"">> \o Head(dirs) \o <<"\"">>), Tail(dirs))

environment_path_command(c, reset, dirs) ==
    add_quoted_params(add_option_when(c, reset, <<"-", "r">>), dirs)

(***************************************************************************)
(* Projections of results: environment queries, breakpoints, stack frames. *)
(***************************************************************************)
\* the outcome of an operation: a value, an error value, or a panic
Value(v) == [st |-> "ok", val |-> v]
Failure == [st |-> "err"]

\* cutoff without the removal of the quotes
cutoffKeepQuotes(line, prefix, removeQuotes) ==
    IF Len(prefix) > Len(line) THEN ParsePanic
    ELSE Value(SubSeq(line, Len(prefix) + 1, Len(line)))

\* cutoff: the slice line[start:end]; it panics when start is behind end
cutoff(line, prefix, removeQuotes) ==
    LET start == IF removeQuotes THEN Len(prefix) + 1 ELSE Len(prefix)
        end == IF removeQuotes THEN Len(line) - 1 ELSE Len(line)
    IN  IF start > end THEN ParsePanic ELSE Value(SubSeq(line, start + 1, end))

\* environment_path_query behind gdb.send: what it returns for the outcome
\* rsp of gdb.send
environment_path_result(rsp, prefix) ==
    IF rsp.err THEN Failure ELSE cutoff(rsp.Results, prefix, TRUE)

\* mapValueAsString: v.(string) panics for a value that is no string
mapValuePanics(m, key) == key \in DOMAIN m /\ m[key].t # "string"
mapValueAsString(m, key, def) == IF key \in DOMAIN m THEN m[key].s ELSE def

\* binfo[key].(string): panics for a missing key and for a value that is no
\* string
assertPanics(m, key) == key \notin DOMAIN m \/ m[key].t # "string"

\* the const block of BreakpointType and the dispositions, on one iota
BP_breakpoint == 0
BP_catchpoint == 1
BP_breakpointDisposition_delete == 2
BP_breakpointDisposition_keep == 3

W_breakpoint == <<"b", "r", "e", "a", "k", "p", "o", "i", "n", "t">>
W_catchpoint == <<"c", "a", "t", "c", "h", "p", "o", "i", "n", "t">>
W_del == <<"d", "e", "l">>
W_keep == <<"k", "e", "e", "p">>
K_frame == <<"f", "r", "a", "m", "e">>
K_number == <<"n", "u", "m", "b", "e", "r">>
K_thread_groups == <<"t", "h", "r", "e", "a", "d", "-", "g", "r", "o", "u", "p", "s">>
K_original_location ==
    <<"o", "r", "i", "g", "i", "n", "a", "l", "-", "l", "o", "c", "a", "t", "i", "o", "n">>
K_disp == <<"d", "i", "s", "p">>
K_enabled == <<"e", "n", "a", "b", "l", "e", "d">>
K_func == <<"f", "u", "n", "c">>
K_filename == <<"f", "i", "l", "e", "n", "a", "m", "e">>
K_fullname == <<"f", "u", "l", "l", "n", "a", "m", "e">>
K_line == <<"l", "i", "n", "e">>
K_at == <<"a", "t">>
K_pending == <<"p", "e", "n", "d", "i", "n", "g">>
K_thread == <<"t", "h", "r", "e", "a", "d">>
K_cond == <<"c", "o", "n", "d">>
K_ignore == <<"i", "g", "n", "o", "r", "e">>
K_enable == <<"e", "n", "a", "b", "l", "e">>
K_mask == <<"m", "a", "s", "k">>
K_pass == <<"p", "a", "s", "s">>
K_times == <<"t", "i", "m", "e", "s">>
K_installed == <<"i", "n", "s", "t", "a", "l", "l", "e", "d">>
K_level == <<"l", "e", "v", "e", "l">>
K_file == <<"f", "i", "l", "e">>
K_from == <<"f", "r", "o", "m">>

\* BreakpointWithName and BreakpointDispositionWithName: the names init() adds
BreakpointKnown(n) == n \in {W_breakpoint, W_catchpoint}
BreakpointWithName(n) == IF n = W_breakpoint THEN BP_breakpoint ELSE BP_catchpoint
BreakpointDispositionKnown(n) == n \in {W_del, W_keep}
BreakpointDispositionWithName(n) ==
    IF n = W_del THEN BP_breakpointDisposition_delete ELSE BP_breakpointDisposition_keep

\* the keys parseBreakpointInfo reads with mapValueAsString
BreakpointOptionalKeys ==
    {K_enabled, K_addr, K_func, K_filename, K_fullname, K_line, K_at, K_pending, K_thread,
     K_cond, K_ignore, K_enable, K_mask, K_pass, K_original_location, K_times, K_installed}

\* parseBreakpointInfo
parseBreakpointInfo(info) ==
    LET parsed == parseStructure(info)
        binfo == parsed.val.m
    IN  IF parsed.st # "ok" THEN parsed
        ELSE IF assertPanics(binfo, K_number) \/ assertPanics(binfo, K_type) THEN ParsePanic
        ELSE IF ~BreakpointKnown(binfo[K_type].s) THEN Failure
        ELSE IF assertPanics(binfo, K_disp) THEN ParsePanic
        ELSE IF ~BreakpointDispositionKnown(binfo[K_disp].s) THEN Failure
        ELSE IF \E k \in BreakpointOptionalKeys : mapValuePanics(binfo, k) THEN ParsePanic
        ELSE Value([Number |-> binfo[K_number].s,
                    Type |-> BreakpointWithName(binfo[K_type].s),
                    Disposition |-> BreakpointDispositionWithName(binfo[K_disp].s),
                    Enabled |-> (mapValueAsString(binfo, K_enabled, <<"n">>) = <<"y">>),
                    Address |-> mapValueAsString(binfo, K_addr, EmptyText),
                    Function |-> mapValueAsString(binfo, K_func, EmptyText),
                    Filename |-> mapValueAsString(binfo, K_filename, EmptyText),
                    Fullname |-> mapValueAsString(binfo, K_fullname, EmptyText),
                    Line |-> ScanInt(mapValueAsString(binfo, K_line, <<"0">>)),
                    At |-> mapValueAsString(binfo, K_at, EmptyText),
                    Pending |-> mapValueAsString(binfo, K_pending, EmptyText),
                    Thread |-> mapValueAsString(binfo, K_thread, EmptyText),
                    Condition |-> mapValueAsString(binfo, K_cond, EmptyText),
                    Ignore |-> ScanInt(mapValueAsString(binfo, K_ignore, <<"0">>)),
                    Enable |-> ScanInt(mapValueAsString(binfo, K_enable, <<"0">>)),
                    Mask |-> mapValueAsString(binfo, K_mask, EmptyText),
                    Pass |-> ScanInt(mapValueAsString(binfo, K_pass, <<"0">>)),
                    OriginalLocation |-> mapValueAsString(binfo, K_original_location, <<"0">>),
                    Times |-> ScanInt(mapValueAsString(binfo, K_times, <<"0">>)),
                    Installed |-> (mapValueAsString(binfo, K_installed, <<"n">>) = <<"y">>)])

\* Break_insert behind gdb.send: what it returns for the outcome rsp of
\* gdb.send
Break_insert_result(rsp) ==
    IF rsp.err THEN Failure
    ELSE IF rsp.Type \notin {Result_done, Result_running} THEN Failure
    ELSE IF HasPrefix(rsp.Results, P_bkpt)
    THEN parseBreakpointInfo(cutoff(rsp.Results, P_bkpt, FALSE).val)
    ELSE Failure

\* stackFrameInfo
stackFrameInfo(sinfo) ==
    IF \E k \in {K_line, K_level, K_func, K_addr, K_file, K_from, K_fullname} :
            mapValuePanics(sinfo, k)
    THEN ParsePanic
    ELSE Value([Line |-> ScanInt(mapValueAsString(sinfo, K_line, <<"0">>)),
                Level |-> ScanInt(mapValueAsString(sinfo, K_level, <<"0">>)),
                Function |-> mapValueAsString(sinfo, K_func, EmptyText),
                Address |-> mapValueAsString(sinfo, K_addr, EmptyText),
                File |-> mapValueAsString(sinfo, K_file, EmptyText),
                From |-> mapValueAsString(sinfo, K_from, EmptyText),
                Fullname |-> mapValueAsString(sinfo, K_fullname, EmptyText)])

\* parseStackFrameInfo
parseStackFrameInfo(info) ==
    LET parsed == parseStructure(info)
    IN  IF parsed.st # "ok" THEN parsed ELSE stackFrameInfo(parsed.val.m)

\* frameArguments: sa.(gdbStruct) panics for an element that is no tuple
frameArguments(args) ==
    IF \E i \in DOMAIN args :
            \/ args[i].t # "gdbStruct"
            \/ \E k \in {K_name, K_type, K_value} : mapValuePanics(args[i].m, k)
    THEN ParsePanic
    ELSE Value([i \in DOMAIN args |->
                    [Name |-> mapValueAsString(args[i].m, K_name, EmptyText),
                     Type |-> mapValueAsString(args[i].m, K_type, EmptyText),
                     Value |-> mapValueAsString(args[i].m, K_value, EmptyText)]])

\* parseFrameArguments
parseFrameArguments(info) ==
    LET parsed == parseStructureArray(info)
    IN  IF parsed.st # "ok" THEN parsed ELSE frameArguments(parsed.val.a)

(***************************************************************************)
(* State of a session.                                                     *)
(***************************************************************************)
VARIABLES
    clock,          \* the last wall clock reading of time.Now().UnixNano()
    pc,             \* per caller task: "idle", "send", "wait" or "panic"
    cmd,            \* per caller task: the gdb_command of its current gdbsend
    ncmd,           \* per caller task: the commands it has created
    ret,            \* per caller task: what its gdbsend calls returned (history)
    quit,           \* gdb.quit: "open" or "closed"
    nclose,         \* the calls of Close so far
    commands,       \* gdb.commands: "open" or "closed"
    result,         \* gdb.result: "open" or "closed"
    Event,          \* gdb.Event: "open" or "closed"
    Target,         \* gdb.Target: "open" or "closed"
    copc,           \* coordinator goroutine: "select", "insert", "deliver", "exit"
    coCmd,          \* the command the coordinator has received
    coRsp,          \* the response the coordinator is sending to a command
    coWaiting,      \* waiting_cmd: the command the response is sent to
    open_commands,  \* the coordinator's map from token to command
    stdin,          \* the lines written to the debugger, with their command (history)
    emitted,        \* every line the debugger has written to stdout, each with
                    \* the stdin line it is the first answer to, or 0 (history)
    nread,          \* the lines of emitted the reader has read
    eof,            \* the debugger has closed its stdout
    replies,        \* per stdin line: the Result records the debugger emitted for it
    nout,           \* the unsolicited lines the debugger has emitted
    rdpc,           \* reader goroutine: "read", "send" or "exit"
    rdQueue,        \* the responses the reader still has to forward for its line
    eventPubs,      \* the goroutines blocked in gdb.Event <- *ev
    targetPubs,     \* the goroutines blocked in gdb.Target <- *ev
    eventGot,       \* what the consumer has received from gdb.Event (history)
    targetGot,      \* what the consumer has received from gdb.Target (history)
    logged,         \* the lines the coordinator has printed for log records
    crashed,        \* a goroutine has panicked: the process is gone
    overlap,        \* two commands with one token were in flight together (history)
    call            \* the last call of a function of the package on a value of
                    \* its own (parser, projections, encoder): NoCall or the
                    \* function, its argument and its outcome

vars == <<clock, pc, cmd, ncmd, ret, quit, nclose, commands, result, Event, Target,
          copc, coCmd, coRsp, coWaiting, open_commands, stdin, emitted, nread, eof,
          replies, nout, rdpc, rdQueue, eventPubs, targetPubs, eventGot, targetGot, logged,
          crashed, overlap, call>>

\* the state of the session
progVars == <<clock, pc, cmd, ncmd, ret, quit, nclose, commands, result, Event, Target,
              copc, coCmd, coRsp, coWaiting, open_commands, stdin, emitted, nread, eof,
              replies, nout, rdpc, rdQueue, eventPubs, targetPubs, eventGot, targetGot,
              logged, crashed, overlap>>

\* no function of the package has been called on its own
NoCall == [fn |-> "none"]

callerVars == <<pc, cmd, ncmd, ret>>
chanVars == <<quit, nclose, commands, result, Event, Target>>
coordVars == <<copc, coCmd, coRsp, coWaiting, open_commands>>
dbgVars == <<emitted, eof, replies, nout>>
readerVars == <<nread, rdpc, rdQueue>>
pubVars == <<eventPubs, targetPubs>>
consumerVars == <<eventGot, targetGot>>

\* NewGDB: make(chan GDBEvent) and make(chan GDBTargetConsoleEvent) have no buffer
EventCap == 0
TargetCap == 0

\* timetokenGenerator: the wall clock reading
timetokenGenerator(now) == now

\* newCommand: a token from the generator and a fresh unbuffered result
\* channel, named ch.  late records whether Close had been called (history).
newCommand(now, ch, late) ==
    [token |-> timetokenGenerator(now), cmd |-> W_exec_next, parameter |-> <<>>,
     options |-> <<>>, result |-> ch, late |-> late]

NoCommand == [token |-> 0, cmd |-> EmptyText, parameter |-> <<>>, options |-> <<>>,
              result |-> <<0, 0>>, late |-> FALSE]

NoResponse == [kind |-> "none", token |-> 0, line |-> EmptyText, src |-> 0]

Init ==
    /\ clock = ClockStart
    /\ pc = [c \in Callers |-> "idle"]
    /\ cmd = [c \in Callers |-> NoCommand]
    /\ ncmd = [c \in Callers |-> 0]
    /\ ret = [c \in Callers |-> <<>>]
    /\ quit = "open" /\ nclose = 0
    /\ commands = "open" /\ result = "open" /\ Event = "open" /\ Target = "open"
    /\ copc = "select" /\ coCmd = NoCommand /\ coRsp = NoResponse /\ coWaiting = NoCommand
    /\ open_commands = <<>>
    /\ stdin = <<>>
    /\ emitted = <<>> /\ nread = 0 /\ eof = FALSE /\ replies = <<>> /\ nout = 0
    /\ rdpc = "read" /\ rdQueue = <<>>
    /\ eventPubs = {} /\ targetPubs = {}
    /\ eventGot = <<>> /\ targetGot = <<>>
    /\ logged = <<>>
    /\ crashed = FALSE
    /\ overlap = FALSE
    /\ call = NoCall

(***************************************************************************)
(* Caller tasks: an operation of the surface builds a command and calls    *)
(* gdbsend.                                                                *)
(***************************************************************************)
\* the commands created so far, by all caller tasks
TotalCmds == ncmd[1] + ncmd[2]

\* c := newCommand(...): the clock has advanced by d since the last reading
CallerNewCommand(c) ==
    /\ ~crashed /\ pc[c] = "idle" /\ TotalCmds < MaxCmds
    /\ \E d \in {0, 1} :
        /\ clock' = clock + d
        /\ cmd' = [cmd EXCEPT ![c] =
                      newCommand(clock + d, <<c, ncmd[c] + 1>>, quit = "closed")]
        /\ overlap' = (overlap \/ \E o \in Callers \ {c} :
                          pc[o] \in {"send", "wait"} /\ cmd[o].token = timetokenGenerator(clock + d))
    /\ ncmd' = [ncmd EXCEPT ![c] = @ + 1]
    /\ pc' = [pc EXCEPT ![c] = "send"]
    /\ UNCHANGED <<ret, chanVars, coordVars, stdin, dbgVars, readerVars, pubVars,
                   consumerVars, logged, crashed>>
    /\ UNCHANGED call

\* gdbsend: gdb.commands <- *cmd on the closed channel panics
CallerSendClosed(c) ==
    /\ ~crashed /\ pc[c] = "send" /\ commands = "closed"
    /\ pc' = [pc EXCEPT ![c] = "panic"]
    /\ crashed' = TRUE
    /\ UNCHANGED <<clock, cmd, ncmd, ret, chanVars, coordVars, stdin, dbgVars,
                   readerVars, pubVars, consumerVars, logged, overlap>>
    /\ UNCHANGED call

\* Close: close(gdb.quit); closing the closed channel panics
Close ==
    /\ ~crashed /\ nclose < MaxClose
    /\ nclose' = nclose + 1
    /\ quit' = "closed"
    /\ crashed' = (quit = "closed")
    /\ UNCHANGED <<clock, callerVars, commands, result, Event, Target, coordVars,
                   stdin, dbgVars, readerVars, pubVars, consumerVars, logged, overlap>>
    /\ UNCHANGED call

(***************************************************************************)
(* The coordinator goroutine of startupGDB.                                *)
(***************************************************************************)
\* send_to_gdb: fmt.Fprintln(gdb.stdin, cmd.dump_mi()).  The write returns
\* an error (err) when the debugger has exited; the error is not looked at.
send_to_gdb(c) == Append(stdin, [line |-> dump_mi(c), by |-> c.result, err |-> eof])

\* case c := <-gdb.commands, with caller c blocked in gdb.commands <- *cmd:
\* the command is written to the debugger
CoordCommand(c) ==
    /\ ~crashed /\ copc = "select" /\ commands = "open" /\ pc[c] = "send"
    /\ stdin' = send_to_gdb(cmd[c])
    /\ replies' = Append(replies, 0)
    /\ coCmd' = cmd[c]
    /\ copc' = "insert"
    /\ pc' = [pc EXCEPT ![c] = "wait"]
    /\ UNCHANGED <<clock, cmd, ncmd, ret, chanVars, coRsp, coWaiting, open_commands, emitted,
                   eof, nout, readerVars, pubVars, consumerVars, logged, crashed, overlap>>
    /\ UNCHANGED call

\* open_commands[c.token] = &c
insertCommand(m, c) == (c.token :> c) @@ m

CoordInsert ==
    /\ ~crashed /\ copc = "insert"
    /\ open_commands' = insertCommand(open_commands, coCmd)
    /\ copc' = "select"
    /\ UNCHANGED <<clock, callerVars, chanVars, coCmd, coRsp, coWaiting, stdin, dbgVars,
                   readerVars, pubVars, consumerVars, logged, crashed, overlap>>
    /\ UNCHANGED call

\* case <-gdb.quit
CoordQuit ==
    /\ ~crashed /\ copc = "select" /\ quit = "closed"
    /\ commands' = "closed" /\ Target' = "closed" /\ Event' = "closed"
    /\ copc' = "exit"
    /\ UNCHANGED <<clock, callerVars, quit, nclose, result, coCmd, coRsp, coWaiting,
                   open_commands, stdin, dbgVars, readerVars, pubVars, consumerVars,
                   logged, crashed, overlap>>
    /\ UNCHANGED call

\* case r, ok := <-gdb.result with ok false: the reader has closed the channel
CoordResultClosed ==
    /\ ~crashed /\ copc = "select" /\ result = "closed"
    /\ copc' = "exit"
    /\ UNCHANGED <<clock, callerVars, chanVars, coCmd, coRsp, coWaiting, open_commands,
                   stdin, dbgVars, readerVars, pubVars, consumerVars, logged, crashed, overlap>>
    /\ UNCHANGED call

\* a lookup that ignores the token of the response: the entry with the least token
lookupCommandAnyToken(m, r) ==
    IF DOMAIN m # {}
    THEN [ok |-> TRUE, waiting_cmd |-> m[CHOOSE t \in DOMAIN m : \A u \in DOMAIN m : t <= u]]
    ELSE [ok |-> FALSE, waiting_cmd |-> NoCommand]

\* waiting_cmd, ok := open_commands[r.Token()]
lookupCommand(m, r) == IF r.token \in DOMAIN m THEN [ok |-> TRUE, waiting_cmd |-> m[r.token]]
                       ELSE [ok |-> FALSE, waiting_cmd |-> NoCommand]

\* a coordinator that decodes async records and publishes none of them
CoordResultDropsEvents ==
    /\ ~crashed /\ copc = "select" /\ rdpc = "send"
    /\ LET r == Head(rdQueue)
           a == createAsync(r.line)
       IN  /\ rdQueue' = Tail(rdQueue)
           /\ rdpc' = IF Tail(rdQueue) = <<>> THEN "read" ELSE "send"
           /\ IF r.kind = "result" /\ lookupCommand(open_commands, r).ok
              THEN /\ copc' = "deliver" /\ coRsp' = r
                   /\ coWaiting' = lookupCommand(open_commands, r).waiting_cmd
              ELSE UNCHANGED <<copc, coRsp, coWaiting>>
           /\ targetPubs' = IF r.kind = "target"
                            THEN targetPubs \cup {[src |-> r.src, Line |-> r.line]}
                            ELSE targetPubs
           /\ logged' = IF r.kind = "log" THEN Append(logged, r.line) ELSE logged
           /\ eventPubs' = eventPubs
           /\ crashed' = (r.kind = "async" /\ a.st = "panic")
    /\ UNCHANGED <<clock, callerVars, chanVars, coCmd, open_commands, stdin, dbgVars,
                   nread, consumerVars, overlap>>
    /\ UNCHANGED call

\* a coordinator that also publishes the event of a record createAsync
\* returned an error for
CoordResultPublishesErrors ==
    /\ ~crashed /\ copc = "select" /\ rdpc = "send"
    /\ LET r == Head(rdQueue)
           a == createAsync(r.line)
       IN  /\ rdQueue' = Tail(rdQueue)
           /\ rdpc' = IF Tail(rdQueue) = <<>> THEN "read" ELSE "send"
           /\ IF r.kind = "result" /\ lookupCommand(open_commands, r).ok
              THEN /\ copc' = "deliver" /\ coRsp' = r
                   /\ coWaiting' = lookupCommand(open_commands, r).waiting_cmd
              ELSE UNCHANGED <<copc, coRsp, coWaiting>>
           /\ targetPubs' = IF r.kind = "target"
                            THEN targetPubs \cup {[src |-> r.src, Line |-> r.line]}
                            ELSE targetPubs
           /\ logged' = IF r.kind = "log" THEN Append(logged, r.line) ELSE logged
           /\ eventPubs' = IF r.kind = "async" /\ a.st \in {"ok", "err"}
                           THEN eventPubs \cup {[src |-> r.src, ev |-> a.ev]}
                           ELSE eventPubs
           /\ crashed' = (r.kind = "async" /\ a.st = "panic")
    /\ UNCHANGED <<clock, callerVars, chanVars, coCmd, open_commands, stdin, dbgVars,
                   nread, consumerVars, overlap>>
    /\ UNCHANGED call

\* a result branch that does not wait for the commands branch to finish: it
\* also runs between send_to_gdb and the insertion into open_commands
CoordResultBeforeInsert ==
    /\ ~crashed /\ copc \in {"select", "insert"} /\ rdpc = "send"
    /\ LET r == Head(rdQueue)
           a == createAsync(r.line)
       IN  /\ rdQueue' = Tail(rdQueue)
           /\ rdpc' = IF Tail(rdQueue) = <<>> THEN "read" ELSE "send"
           /\ IF r.kind = "result" /\ lookupCommand(open_commands, r).ok
              THEN /\ copc' = "deliver" /\ coRsp' = r
                   /\ coWaiting' = lookupCommand(open_commands, r).waiting_cmd
              ELSE UNCHANGED <<copc, coRsp, coWaiting>>
           /\ targetPubs' = IF r.kind = "target"
                            THEN targetPubs \cup {[src |-> r.src, Line |-> r.line]}
                            ELSE targetPubs
           /\ logged' = IF r.kind = "log" THEN Append(logged, r.line) ELSE logged
           /\ eventPubs' = IF r.kind = "async" /\ a.st = "ok"
                           THEN eventPubs \cup {[src |-> r.src, ev |-> a.ev]}
                           ELSE eventPubs
           /\ crashed' = (r.kind = "async" /\ a.st = "panic")
    /\ UNCHANGED <<clock, callerVars, chanVars, coCmd, open_commands, stdin, dbgVars,
                   nread, consumerVars, overlap>>
    /\ UNCHANGED call

\* case r := <-gdb.result, with the reader blocked in gdb.result <- rsp: the
\* switch on the type of the response
CoordResult ==
    /\ ~crashed /\ copc = "select" /\ rdpc = "send"
    /\ LET r == Head(rdQueue)
           a == createAsync(r.line)
       IN  /\ rdQueue' = Tail(rdQueue)
           /\ rdpc' = IF Tail(rdQueue) = <<>> THEN "read" ELSE "send"
           /\ IF r.kind = "result" /\ lookupCommand(open_commands, r).ok
              THEN /\ copc' = "deliver" /\ coRsp' = r
                   /\ coWaiting' = lookupCommand(open_commands, r).waiting_cmd
              ELSE UNCHANGED <<copc, coRsp, coWaiting>>
           /\ targetPubs' = IF r.kind = "target"
                            THEN targetPubs \cup {[src |-> r.src, Line |-> r.line]}
                            ELSE targetPubs
           /\ logged' = IF r.kind = "log" THEN Append(logged, r.line) ELSE logged
           /\ eventPubs' = IF r.kind = "async" /\ a.st = "ok"
                           THEN eventPubs \cup {[src |-> r.src, ev |-> a.ev]}
                           ELSE eventPubs
           /\ crashed' = (r.kind = "async" /\ a.st = "panic")
    /\ UNCHANGED <<clock, callerVars, chanVars, coCmd, open_commands, stdin, dbgVars,
                   nread, consumerVars, overlap>>
    /\ UNCHANGED call

\* waiting_cmd.result <- r, with the caller of that command in rsp := <-cmd.result:
\* gdbsend decodes the response and returns
CoordDeliver(c) ==
    /\ ~crashed /\ copc = "deliver" /\ pc[c] = "wait"
    /\ cmd[c].result = coWaiting.result
    /\ ret' = [ret EXCEPT ![c] = Append(@, [token |-> cmd[c].token, rsp |-> coRsp,
                                            out |-> gdbsendReturn(coRsp)])]
    /\ pc' = [pc EXCEPT ![c] = "idle"]
    /\ copc' = "select"
    /\ UNCHANGED <<clock, cmd, ncmd, chanVars, coCmd, coRsp, coWaiting, open_commands,
                   stdin, dbgVars, readerVars, pubVars, consumerVars, logged, crashed, overlap>>
    /\ UNCHANGED call

(***************************************************************************)
(* The reader goroutine parse_gdb_output.                                  *)
(***************************************************************************)
\* buf.ReadBytes('\n') returns a line: it is dropped when gdb_delim matches,
\* and forwarded once per matching expression otherwise
ReaderRead ==
    /\ ~crashed /\ rdpc = "read" /\ nread < Len(emitted)
    /\ nread' = nread + 1
    /\ rdQueue' = LineResponses(emitted[nread + 1].line, nread + 1)
    /\ rdpc' = IF LineResponses(emitted[nread + 1].line, nread + 1) = <<>> THEN "read" ELSE "send"
    /\ UNCHANGED <<clock, callerVars, chanVars, coordVars, stdin, dbgVars, pubVars,
                   consumerVars, logged, crashed, overlap>>
    /\ UNCHANGED call

\* buf.ReadBytes('\n') fails at the end of stdout: close(gdb.result)
ReaderEOF ==
    /\ ~crashed /\ rdpc = "read" /\ nread = Len(emitted) /\ eof
    /\ result' = "closed"
    /\ rdpc' = "exit"
    /\ UNCHANGED <<clock, callerVars, quit, nclose, commands, Event, Target, coordVars,
                   stdin, dbgVars, nread, rdQueue, pubVars, consumerVars, logged, crashed, overlap>>
    /\ UNCHANGED call

(***************************************************************************)
(* Publisher goroutines and the consumers of gdb.Event and gdb.Target.     *)
(***************************************************************************)
\* a consumer receives from one of the goroutines blocked in gdb.Event <- *ev
EventRecv(p) ==
    /\ ~crashed /\ Event = "open" /\ p \in eventPubs
    /\ eventPubs' = eventPubs \ {p}
    /\ eventGot' = Append(eventGot, p)
    /\ UNCHANGED <<clock, callerVars, chanVars, coordVars, stdin, dbgVars, readerVars,
                   targetPubs, targetGot, logged, crashed, overlap>>
    /\ UNCHANGED call

\* a consumer receives from one of the goroutines blocked in gdb.Target <- *ev
TargetRecv(p) ==
    /\ ~crashed /\ Target = "open" /\ p \in targetPubs
    /\ targetPubs' = targetPubs \ {p}
    /\ targetGot' = Append(targetGot, p)
    /\ UNCHANGED <<clock, callerVars, chanVars, coordVars, stdin, dbgVars, readerVars,
                   eventPubs, eventGot, logged, crashed, overlap>>
    /\ UNCHANGED call

\* a goroutine blocked in a send on gdb.Event or gdb.Target panics when the
\* coordinator closes the channel
PublisherPanic ==
    /\ ~crashed
    /\ \/ Event = "closed" /\ eventPubs # {}
       \/ Target = "closed" /\ targetPubs # {}
    /\ crashed' = TRUE
    /\ UNCHANGED <<clock, callerVars, chanVars, coordVars, stdin, dbgVars, readerVars,
                   pubVars, consumerVars, logged, overlap>>
    /\ UNCHANGED call

(***************************************************************************)
(* The debugger process: the environment.                                  *)
(***************************************************************************)
\* the token the debugger echoes: the digits in front of the command
CommandToken(line) == SubSeq(line, 1, DigitPrefixLen(line))

L_prompt == W_gdb \o <<" ">>
L_done == <<"^">> \o W_done
L_error == <<"^">> \o W_error \o <<",">> \o W_msg
L_orphan == <<"3">> \o L_done
L_console == <<"~", "\"", "h", "e", "l", "l", "o", "\\", "n", "\"">>
L_target == <<"@", "\"", "o", "u", "t", "\"">>
L_log == <<"&", "\"", "l", "o", "g", "\"">>
L_raw == <<"h", "e", "l", "l", "o">>
L_running == <<"*">> \o W_running_thread_id \o <<"a", "l", "l", "\"">>
L_group_added == <<"=">> \o AsyncNames[3] \o <<",">> \o K_id \o <<"=", "\"", "i", "1", "\"">>

\* lines whose payload holds the text of the prompt
L_raw_gdb == L_raw \o <<" ">> \o W_gdb
L_console_gdb == <<"~", "\"">> \o W_gdb \o <<"\"">>
L_group_added_gdb == <<"=">> \o AsyncNames[3] \o <<",">> \o K_id \o <<"=", "\"">> \o W_gdb \o <<"\"">>
L_done_gdb == L_done \o <<",">> \o K_value \o <<"=", "\"">> \o W_gdb \o <<"\"">>

\* the Result records the debugger answers a command with
ReplyBodies == {L_done, L_error}
PromptReplyBodies == {L_done, L_done_gdb}

\* lines the debugger may write without a command asking for them
ResultLines == {L_done, L_orphan, L_prompt}
StreamLines == {L_console, L_target, L_log, L_raw, L_running, L_group_added}
EventLines == {L_running, L_group_added}
PromptLines == {L_prompt, L_raw, L_raw_gdb, L_console_gdb, L_group_added, L_group_added_gdb}

\* async records: a stopped record with a frame tuple between its fields
W_stopped_head == AsyncNames[2] \o <<",">> \o K_reason \o <<"=", "\"">> \o StopNames[1] \o <<"\"", ",">>
W_stopped_tail == <<",">> \o K_thread_id \o <<"=", "\"", "1", "\"", ",">>
                  \o K_stopped_threads \o <<"=", "\"", "a", "l", "l", "\"", ",">>
                  \o K_core \o <<"=", "\"", "0", "\"">>
\* frame={func="main",args=[]}
F_plain == <<"f", "r", "a", "m", "e", "=", "{", "f", "u", "n", "c", "=", "\"", "m", "a", "i", "n", "\"", ",", "a", "r", "g", "s", "=", "[", "]", "}">>
\* frame={func="f",args=[{name="a",value="{1, 2}"}]}
F_quoted == <<"f", "r", "a", "m", "e", "=", "{", "f", "u", "n", "c", "=", "\"", "f", "\"", ",", "a", "r", "g", "s", "=", "[", "{", "n", "a", "m", "e", "=", "\"", "a", "\"", ",", "v", "a", "l", "u", "e", "=", "\"", "{", "1", ",", " ", "2", "}", "\"", "}", "]", "}">>

L_stopped(frame) == <<"*">> \o W_stopped_head \o frame \o W_stopped_tail

NestedStoppedLines == {L_stopped(F_plain), L_stopped(F_quoted)}

\* malformed async records: no payload, a comma inside a quoted value, a
\* field without "="
L_stopped_bare == <<"*">> \o AsyncNames[2]
L_added_quoted_comma == <<"=">> \o AsyncNames[3] \o <<",">> \o K_id \o <<"=", "\"", "a", ",", "b", "\"">>
L_added_no_eq == <<"=">> \o AsyncNames[3] \o <<",">> \o K_id

MalformedLines == {L_stopped_bare, L_added_quoted_comma, L_added_no_eq}

\* async records of a class that is not registered: =foo,id="1" and =f="ab"
L_unknown == <<"=", "f", "o", "o", ",">> \o K_id \o <<"=", "\"", "1", "\"">>
L_unknown_eq == <<"=", "f", "=", "\"", "a", "b", "\"">>

UnknownLines == {L_unknown, L_unknown_eq}

AsyncLines == NestedStoppedLines \cup MalformedLines \cup UnknownLines \cup {L_group_added}

\* async records of the classes of the decoder's table
\* =thread-group-started,id="i1",pid="42"
L_group_started == <<"=", "t", "h", "r", "e", "a", "d", "-", "g", "r", "o",
    "u", "p", "-", "s", "t", "a", "r", "t", "e", "d", ",", "i", "d", "=",
    "\"", "i", "1", "\"", ",", "p", "i", "d", "=", "\"", "4", "2", "\"">>
\* =thread-created,id="1",group-id="i1"
L_thread_created == <<"=", "t", "h", "r", "e", "a", "d", "-", "c", "r",
    "e", "a", "t", "e", "d", ",", "i", "d", "=", "\"", "1", "\"", ",", "g",
    "r", "o", "u", "p", "-", "i", "d", "=", "\"", "i", "1", "\"">>
\* =library-loaded,id="l"
L_library_loaded == <<"=", "l", "i", "b", "r", "a", "r", "y", "-", "l",
    "o", "a", "d", "e", "d", ",", "i", "d", "=", "\"", "l", "\"">>
\* =tsv-created,name="t",initial="0"
L_tsv_created == <<"=", "t", "s", "v", "-", "c", "r", "e", "a", "t", "e",
    "d", ",", "n", "a", "m", "e", "=", "\"", "t", "\"", ",", "i", "n", "i",
    "t", "i", "a", "l", "=", "\"", "0", "\"">>
\* =cmd-param-changed,param="p",value="v"
L_cmd_param_changed == <<"=", "c", "m", "d", "-", "p", "a", "r", "a", "m",
    "-", "c", "h", "a", "n", "g", "e", "d", ",", "p", "a", "r", "a", "m",
    "=", "\"", "p", "\"", ",", "v", "a", "l", "u", "e", "=", "\"", "v", "\"">>
\* =memory-changed,thread-group="i1",addr="4096",len="4",type="code"
L_memory_changed == <<"=", "m", "e", "m", "o", "r", "y", "-", "c", "h",
    "a", "n", "g", "e", "d", ",", "t", "h", "r", "e", "a", "d", "-", "g",
    "r", "o", "u", "p", "=", "\"", "i", "1", "\"", ",", "a", "d", "d", "r",
    "=", "\"", "4", "0", "9", "6", "\"", ",", "l", "e", "n", "=", "\"",
    "4", "\"", ",", "t", "y", "p", "e", "=", "\"", "c", "o", "d", "e", "\"">>
\* =breakpoint-created,bkpt={number="1",type="breakpoint"}
L_bkpt_created == <<"=", "b", "r", "e", "a", "k", "p", "o", "i", "n", "t",
    "-", "c", "r", "e", "a", "t", "e", "d", ",", "b", "k", "p", "t", "=",
    "{", "n", "u", "m", "b", "e", "r", "=", "\"", "1", "\"", ",", "t", "y",
    "p", "e", "=", "\"", "b", "r", "e", "a", "k", "p", "o", "i", "n", "t",
    "\"", "}">>
\* =breakpoint-modified,bkpt={number="1",type="breakpoint"}
L_bkpt_modified == <<"=", "b", "r", "e", "a", "k", "p", "o", "i", "n", "t",
    "-", "m", "o", "d", "i", "f", "i", "e", "d", ",", "b", "k", "p", "t",
    "=", "{", "n", "u", "m", "b", "e", "r", "=", "\"", "1", "\"", ",", "t",
    "y", "p", "e", "=", "\"", "b", "r", "e", "a", "k", "p", "o", "i", "n",
    "t", "\"", "}">>
\* =breakpoint-deleted,id="1"
L_bkpt_deleted == <<"=", "b", "r", "e", "a", "k", "p", "o", "i", "n", "t",
    "-", "d", "e", "l", "e", "t", "e", "d", ",", "i", "d", "=", "\"", "1",
    "\"">>

BreakpointLines == {L_bkpt_created, L_bkpt_modified, L_bkpt_deleted}

DecodeLines == {L_running, L_stopped(F_plain), L_group_added, L_group_started,
                L_thread_created, L_library_loaded, L_tsv_created, L_cmd_param_changed,
                L_memory_changed, L_unknown_eq} \cup BreakpointLines

\* the debugger answers the i-th command it has read with a Result record
\* carrying that command's token
DbgReply(i, body) ==
    /\ ~crashed /\ ~eof /\ i \in 1..Len(stdin) /\ replies[i] = 0
    /\ emitted' = Append(emitted, [line |-> CommandToken(stdin[i].line) \o body, re |-> i])
    /\ replies' = [replies EXCEPT ![i] = 1]
    /\ UNCHANGED <<clock, callerVars, chanVars, coordVars, stdin, eof, nout,
                   readerVars, pubVars, consumerVars, logged, crashed, overlap>>
    /\ UNCHANGED call

\* the debugger repeats the Result record of a command it has answered
DbgReplyAgain(i) ==
    /\ ~crashed /\ ~eof /\ i \in 1..Len(stdin) /\ replies[i] = 1 /\ nout < MaxJunk
    /\ emitted' = Append(emitted, [line |-> CommandToken(stdin[i].line) \o L_done, re |-> 0])
    /\ replies' = [replies EXCEPT ![i] = 2]
    /\ nout' = nout + 1
    /\ UNCHANGED <<clock, callerVars, chanVars, coordVars, stdin, eof,
                   readerVars, pubVars, consumerVars, logged, crashed, overlap>>
    /\ UNCHANGED call

\* the debugger writes a line no command asked for, at most max of them
DbgEmit(l, max) ==
    /\ ~crashed /\ ~eof /\ nout < max
    /\ emitted' = Append(emitted, [line |-> l, re |-> 0])
    /\ nout' = nout + 1
    /\ UNCHANGED <<clock, callerVars, chanVars, coordVars, stdin, eof, replies,
                   readerVars, pubVars, consumerVars, logged, crashed, overlap>>
    /\ UNCHANGED call

\* the debugger exits: its stdout reaches the end
DbgExit ==
    /\ ~crashed /\ ~eof
    /\ eof' = TRUE
    /\ UNCHANGED <<clock, callerVars, chanVars, coordVars, stdin, emitted, replies,
                   nout, readerVars, pubVars, consumerVars, logged, crashed, overlap>>
    /\ UNCHANGED call

(***************************************************************************)
(* Specifications.                                                         *)
(***************************************************************************)
\* commands and Result records: two caller tasks, no stream records, no shutdown
Next ==
    \/ \E c \in Callers : CallerNewCommand(c)
    \/ \E c \in Callers : CoordCommand(c)
    \/ CoordInsert
    \/ CoordResult
    \/ \E c \in Callers : CoordDeliver(c)
    \/ ReaderRead
    \/ \E i \in 1..MaxCmds : DbgReply(i, L_done)
    \/ \E i \in 1..MaxCmds : DbgReplyAgain(i)
    \/ \E l \in ResultLines : DbgEmit(l, MaxJunk)

Spec == Init /\ [][Next]_vars

\* one caller task whose commands the debugger answers with done or error, and Close
NextErr ==
    \/ CallerNewCommand(1)
    \/ CoordCommand(1)
    \/ CoordInsert
    \/ CoordResult
    \/ CoordDeliver(1)
    \/ ReaderRead
    \/ \E i \in 1..MaxCmds, body \in ReplyBodies : DbgReply(i, body)
    \/ DbgEmit(L_prompt, MaxJunk)
    \/ Close
    \/ CoordQuit
    \/ CallerSendClosed(1)

SpecErr == Init /\ [][NextErr]_vars

\* two caller tasks and Close
NextClose ==
    \/ \E c \in Callers : CallerNewCommand(c)
    \/ \E c \in Callers : CallerSendClosed(c)
    \/ Close
    \/ \E c \in Callers : CoordCommand(c)
    \/ CoordInsert
    \/ CoordQuit
    \/ CoordResult
    \/ \E c \in Callers : CoordDeliver(c)
    \/ ReaderRead
    \/ \E i \in 1..MaxCmds : DbgReply(i, L_done)

SpecClose == Init /\ [][NextClose]_vars

\* one caller task, with async and stream records and their consumers
NextStream ==
    \/ CallerNewCommand(1)
    \/ CoordCommand(1)
    \/ CoordInsert
    \/ CoordResult
    \/ CoordDeliver(1)
    \/ ReaderRead
    \/ \E p \in eventPubs : EventRecv(p)
    \/ \E p \in targetPubs : TargetRecv(p)
    \/ \E i \in 1..MaxCmds : DbgReply(i, L_done)
    \/ \E l \in StreamLines : DbgEmit(l, MaxOut)

SpecStream == Init /\ [][NextStream]_vars

\* one caller task and a debugger whose lines may hold the text of the prompt
NextPrompt ==
    \/ CallerNewCommand(1)
    \/ CoordCommand(1)
    \/ CoordInsert
    \/ CoordResult
    \/ CoordDeliver(1)
    \/ ReaderRead
    \/ \E p \in eventPubs : EventRecv(p)
    \/ \E p \in targetPubs : TargetRecv(p)
    \/ \E i \in 1..MaxCmds, body \in PromptReplyBodies : DbgReply(i, body)
    \/ \E l \in PromptLines : DbgEmit(l, MaxOut)

SpecPrompt == Init /\ [][NextPrompt]_vars

\* one caller task and a debugger that writes async records
NextAsync ==
    \/ CallerNewCommand(1)
    \/ CoordCommand(1)
    \/ CoordInsert
    \/ CoordResult
    \/ CoordDeliver(1)
    \/ ReaderRead
    \/ \E p \in eventPubs : EventRecv(p)
    \/ \E i \in 1..MaxCmds : DbgReply(i, L_done)
    \/ \E l \in AsyncLines : DbgEmit(l, MaxOut)

SpecAsync == Init /\ [][NextAsync]_vars

\* one caller task, a debugger that exits, and Close
NextExit ==
    \/ CallerNewCommand(1)
    \/ CallerSendClosed(1)
    \/ Close
    \/ CoordCommand(1)
    \/ CoordInsert
    \/ CoordQuit
    \/ CoordResultClosed
    \/ CoordResult
    \/ CoordDeliver(1)
    \/ ReaderRead
    \/ ReaderEOF
    \/ \E i \in 1..MaxCmds : DbgReply(i, L_done)
    \/ DbgEmit(L_prompt, MaxJunk)
    \/ DbgExit

SpecExit == Init /\ [][NextExit]_vars

\* one caller task, a debugger that writes async records, and a consumer of
\* gdb.Event that receives when it pleases
NextSlow ==
    \/ CallerNewCommand(1)
    \/ CoordCommand(1)
    \/ CoordInsert
    \/ CoordResult
    \/ CoordDeliver(1)
    \/ ReaderRead
    \/ \E p \in eventPubs : EventRecv(p)
    \/ \E i \in 1..MaxCmds : DbgReply(i, L_done)
    \/ \E l \in EventLines : DbgEmit(l, MaxOut)

\* WF_vars(CoordResult) with ENABLED <<CoordResult>>_vars written out: the
\* coordinator can take a response whenever it is in its select and the
\* reader is blocked in its send, and taking it shortens rdQueue
CoordResultEnabled == ~crashed /\ copc = "select" /\ rdpc = "send"

FairCoordResult == []<>(~CoordResultEnabled) \/ []<><<CoordResult>>_vars

\* WF_vars(ReaderRead) with ENABLED <<ReaderRead>>_vars written out: the
\* reader can read whenever it is at its read and a line is waiting, and
\* reading advances nread
ReaderReadEnabled == ~crashed /\ rdpc = "read" /\ nread < Len(emitted)

FairReaderRead == []<>(~ReaderReadEnabled) \/ []<><<ReaderRead>>_vars

\* every goroutine that can run does run in the end, the consumer receives
\* in the end, and the debugger answers every command in the end
FairSlow ==
    /\ WF_vars(CoordCommand(1))
    /\ WF_vars(CoordInsert)
    /\ FairCoordResult
    /\ WF_vars(CoordDeliver(1))
    /\ FairReaderRead
    /\ WF_vars(\E p \in eventPubs : EventRecv(p))
    /\ WF_vars(\E i \in 1..MaxCmds : DbgReply(i, L_done))

SpecSlow == Init /\ [][NextSlow]_vars /\ FairSlow

(***************************************************************************)
(* The values of the debugger's wire format and their text: what a caller  *)
(* of the value parser hands to it.                                        *)
(***************************************************************************)
\* a c-string with contents x, a list of values and results, a tuple of
\* results, and a result key=value
MIString(x) == [t |-> "string", s |-> x]
MIList(es) == [t |-> "list", es |-> es]
MITuple(fs) == [t |-> "tuple", fs |-> fs]
MIResult(k, v) == [t |-> "result", k |-> k, v |-> v]

\* the escape sequences of a c-string
RECURSIVE Escape(_)
Escape(x) ==
    IF x = <<>> THEN <<>>
    ELSE (CASE Head(x) = "\n" -> <<"\\", "n">>
            [] Head(x) = "\t" -> <<"\\", "t">>
            [] Head(x) = "\\" -> <<"\\", "\\">>
            [] Head(x) = "\"" -> <<"\\", "\"">>
            [] OTHER -> <<Head(x)>>) \o Escape(Tail(x))

RECURSIVE Render(_)
RECURSIVE RenderItems(_)
\* the text of a value
Render(x) ==
    CASE x.t = "string" -> <<"\"">> \o Escape(x.s) \o <<"\"">>
      [] x.t = "list" -> <<"[">> \o RenderItems(x.es) \o <<"]">>
      [] x.t = "tuple" -> <<"{">> \o RenderItems(x.fs) \o <<"}">>
      [] x.t = "result" -> x.k \o <<"=">> \o Render(x.v)

\* the elements of a list or the fields of a tuple, separated by commas
RenderItems(es) ==
    IF es = <<>> THEN <<>>
    ELSE Render(Head(es)) \o (IF Tail(es) = <<>> THEN <<>> ELSE <<",">> \o RenderItems(Tail(es)))

\* all texts of at most n characters of the set A
TextsUpTo(A, n) == UNION {[1..k -> A] : k \in 0..n}

\* all sequences of 1 to n elements of the set A
SeqsUpTo(A, n) == UNION {[1..k -> A] : k \in 1..n}

\* the contents of the quoted strings: a letter and the characters that
\* have an escape sequence
RawChars == {"a", "\n", "\t", "\\", "\""}

StringInputs == {MIString(x) : x \in TextsUpTo(RawChars, MaxText)}


\* the elements of the lists: frame={level="0"}, frame={level="1"}, "a",
\* "=" and thread-id="1"
FrameElems == {MIResult(K_frame, MITuple(<<MIResult(K_level, MIString(<<d>>))>>)) : d \in {"0", "1"}}
BareElems == {MIString(<<"a">>), MIString(<<"=">>)}
HyphenElems == {MIResult(K_thread_id, MIString(<<"1">>))}

ListInputs == {MIList(es) : es \in SeqsUpTo(FrameElems \cup BareElems \cup HyphenElems, MaxElems)}

\* the fields of the tuples: the keys number, thread-groups and
\* original-location with the values "1", "main" and ["i1"]
TupleKeys == {K_number, K_thread_groups, K_original_location}
TupleVals == {MIString(<<"1">>), MIString(<<"m", "a", "i", "n">>),
              MIList(<<MIString(<<"i", "1">>)>>)}
TupleFields == {MIResult(k, v) : k \in TupleKeys, v \in TupleVals}

\* tuples of fields with different keys
TupleInputs ==
    {MITuple(fs) : fs \in {gs \in SeqsUpTo(TupleFields, MaxElems) :
                            \A i, j \in DOMAIN gs : gs[i].k = gs[j].k => i = j}}

\* balanced values with empty tuples, empty lists and nesting: {}, [],
\* {a="1"}, {a={}}, {a=[]}, [{}], ["a"] and {a={a=["a"]}}
K_a == <<"a">>
BalancedInputs ==
    {MITuple(<<>>), MIList(<<>>),
     MITuple(<<MIResult(K_a, MIString(<<"1">>))>>),
     MITuple(<<MIResult(K_a, MITuple(<<>>))>>),
     MITuple(<<MIResult(K_a, MIList(<<>>))>>),
     MIList(<<MITuple(<<>>)>>),
     MIList(<<MIString(<<"a">>)>>),
     MITuple(<<MIResult(K_a, MITuple(<<MIResult(K_a, MIList(<<MIString(<<"a">>)>>))>>))>>)}

\* a tuple whose field has no "=": {a"1"}
L_missing_assign == <<"{", "a", "\"", "1", "\"", "}">>

\* malformed texts: every cut of a balanced value (unbalanced brackets, a
\* key without "=", a string without its closing quote) and the tuple
\* without "="
MalformedInputs ==
    UNION {{SubSeq(Render(b), 1, n) : n \in 1..(Len(Render(b)) - 1)} : b \in BalancedInputs}
        \cup {L_missing_assign}

\* no value of the wire format: the argument is a text of its own
NoTree == [t |-> "none"]

\* a test calls parseValue on a scanner of its own
ParseValueCall ==
    /\ call = NoCall
    /\ \/ \E x \in StringInputs \cup BalancedInputs :
            call' = [fn |-> "parseValue", tree |-> x, arg |-> Render(x),
                     out |-> parseValue(ScannerInit(Render(x)), 1)]
       \/ \E s \in MalformedInputs :
            call' = [fn |-> "parseValue", tree |-> NoTree, arg |-> s,
                     out |-> parseValue(ScannerInit(s), 1)]
    /\ UNCHANGED progVars

\* an operation calls parseStructure on the text of a tuple
ParseStructureCall ==
    /\ call = NoCall
    /\ \E x \in TupleInputs :
            call' = [fn |-> "parseStructure", tree |-> x, arg |-> Render(x),
                     out |-> parseStructure(Render(x))]
    /\ UNCHANGED progVars

\* an operation calls parseStructureArray on the text of a list
ParseStructureArrayCall ==
    /\ call = NoCall
    /\ \E x \in ListInputs :
            call' = [fn |-> "parseStructureArray", tree |-> x, arg |-> Render(x),
                     out |-> parseStructureArray(Render(x))]
    /\ UNCHANGED progVars

\* the value parser on its own
NextParse ==
    \/ ParseValueCall
    \/ ParseStructureCall
    \/ ParseStructureArrayCall

SpecParse == Init /\ [][NextParse]_vars

(***************************************************************************)
(* Operations on a sender of their own: gdb.send is a field of GDB, and a  *)
(* test replaces it by a function that returns the result of one reply.    *)
(***************************************************************************)
\* newCommand(cmd) for the operation cmd
commandOf(op, now) == [newCommand(now, <<0, 0>>, FALSE) EXCEPT !.cmd = op]

\* what gdb.send returns for the reply line of the debugger
sendReturn(line) == gdbsendReturn([NoResponse EXCEPT !.kind = "result", !.line = line])

\* the reply to a failed command
R_error == W_error \o <<",">> \o W_msg

\* the reply to an environment query: the prefix and the quoted text x
R_environment(prefix, x) == W_done \o <<",">> \o prefix \o <<"\"">> \o x \o <<"\"">>

\* the characters of the paths
PathChars == {"/", "a", ",", " ", "\\"}

\* Environment_directory, Environment_path, Environment_pwd
EnvironmentQueries ==
    {[gfunc |-> W_environment_directory, prefix |-> P_source_path, args |-> TRUE],
     [gfunc |-> W_environment_path, prefix |-> P_path, args |-> TRUE],
     [gfunc |-> W_environment_pwd, prefix |-> P_cwd, args |-> FALSE]}

\* environment_path_query: the command is built and sent, and the text
\* behind the prefix is cut out of the result.  The debugger answers with
\* the path x, or with an error.
EnvironmentCall ==
    /\ call = NoCall
    /\ \E q \in EnvironmentQueries, reset \in BOOLEAN, x \in TextsUpTo(PathChars, MaxText),
          failed \in BOOLEAN :
        /\ ~q.args => ~reset
        /\ failed => x = EmptyText
        /\ LET c == environment_path_command(commandOf(q.gfunc, clock + 1), reset,
                                             IF q.args THEN <<x>> ELSE <<>>)
               rsp == sendReturn(IF failed THEN R_error ELSE R_environment(q.prefix, x))
           IN  call' = [fn |-> "environment_path_query", gfunc |-> q.gfunc, arg |-> x,
                        failed |-> failed, wire |-> dump_mi(c),
                        out |-> environment_path_result(rsp, q.prefix)]
    /\ UNCHANGED progVars

\* the environment queries on a sender of their own
NextEnvironment == EnvironmentCall

SpecEnvironment == Init /\ [][NextEnvironment]_vars

\* the fields of a tuple fs whose position is in S, in the order of fs
RECURSIVE Pick(_, _)
Pick(fs, S) ==
    IF fs = <<>> THEN <<>>
    ELSE (IF Len(fs) \in S THEN Pick(SubSeq(fs, 1, Len(fs) - 1), S) \o <<fs[Len(fs)]>>
          ELSE Pick(SubSeq(fs, 1, Len(fs) - 1), S))

\* all tuples of some, but not none, of the fields fs
TuplesOf(fs) == {MITuple(Pick(fs, S)) : S \in (SUBSET (1..Len(fs))) \ {{}}}

\* number="1",type="breakpoint",disp="keep",enabled="y",func="main",line="14",
\* original-location="main"
BreakpointFields ==
    <<MIResult(K_number, MIString(<<"1">>)), MIResult(K_type, MIString(W_breakpoint)),
      MIResult(K_disp, MIString(W_keep)), MIResult(K_enabled, MIString(<<"y">>)),
      MIResult(K_func, MIString(<<"m", "a", "i", "n">>)),
      MIResult(K_line, MIString(<<"1", "4">>)),
      MIResult(K_original_location, MIString(<<"m", "a", "i", "n">>))>>

\* level="1",addr="0x0001076c",func="callee3",file="basics.c",line="17"
StackFrameFields ==
    <<MIResult(K_level, MIString(<<"1">>)),
      MIResult(K_addr, MIString(<<"0", "x", "0", "0", "0", "1", "0", "7", "6", "c">>)),
      MIResult(K_func, MIString(<<"c", "a", "l", "l", "e", "e", "3">>)),
      MIResult(K_file, MIString(<<"b", "a", "s", "i", "c", "s", ".", "c">>)),
      MIResult(K_line, MIString(<<"1", "7">>))>>

\* name="x",type="int",value="1"
FrameArgumentFields ==
    <<MIResult(K_name, MIString(<<"x">>)), MIResult(K_type, MIString(<<"i", "n", "t">>)),
      MIResult(K_value, MIString(<<"1">>))>>

BreakpointTuples == TuplesOf(BreakpointFields)
StackFrameTuples == TuplesOf(StackFrameFields)
FrameArgumentLists == {MIList(es) : es \in SeqsUpTo(TuplesOf(FrameArgumentFields), 2)}

\* a reply is projected to a Breakpoint
ParseBreakpointInfoCall ==
    /\ call = NoCall
    /\ \E x \in BreakpointTuples :
            call' = [fn |-> "parseBreakpointInfo", tree |-> x, arg |-> Render(x),
                     out |-> parseBreakpointInfo(Render(x))]
    /\ UNCHANGED progVars

\* a reply is projected to a StackFrame
ParseStackFrameInfoCall ==
    /\ call = NoCall
    /\ \E x \in StackFrameTuples :
            call' = [fn |-> "parseStackFrameInfo", tree |-> x, arg |-> Render(x),
                     out |-> parseStackFrameInfo(Render(x))]
    /\ UNCHANGED progVars

\* a reply is projected to a list of FrameArgument
ParseFrameArgumentsCall ==
    /\ call = NoCall
    /\ \E x \in FrameArgumentLists :
            call' = [fn |-> "parseFrameArguments", tree |-> x, arg |-> Render(x),
                     out |-> parseFrameArguments(Render(x))]
    /\ UNCHANGED progVars

\* the projections of tuples to domain records
NextProject ==
    \/ ParseBreakpointInfoCall
    \/ ParseStackFrameInfoCall
    \/ ParseFrameArgumentsCall

SpecProject == Init /\ [][NextProject]_vars

\* the reply to break-insert: the breakpoint with all the fields
R_bkpt == W_done \o <<",">> \o P_bkpt \o Render(MITuple(BreakpointFields))

\* the pointer arguments of the operations: nil or a value
IntPointers == {NilPointer, PointerTo(1), PointerTo(12)}
ConditionPointers == {NilPointer, PointerTo(<<"x", ">", "1">>)}

\* Exec_run: the command is built and handed to gdb.send, whose outcome is
\* returned
ExecRunCall ==
    /\ call = NoCall
    /\ \E all \in BOOLEAN, threadgroup \in IntPointers, reply \in {W_running, R_error} :
        LET c == Exec_run_command(commandOf(W_exec_run, clock + 1), all, threadgroup)
        IN  call' = [fn |-> "Exec_run", all |-> all, threadgroup |-> threadgroup,
                     token |-> c.token, wire |-> dump_mi(c), out |-> sendReturn(reply)]
    /\ UNCHANGED progVars

\* Break_insert: the command is built and handed to gdb.send, and the
\* result is projected to a Breakpoint
BreakInsertCall ==
    /\ call = NoCall
    /\ \E flags \in [{"istemp", "ishw", "createpending", "disabled", "tracepoint"} -> BOOLEAN],
          condition \in ConditionPointers, ignorecount \in IntPointers,
          threadid \in {NilPointer, PointerTo(1)}, reply \in {R_bkpt, R_error} :
        LET location == <<"m", "a", "i", "n">>
            c == Break_insert_command(commandOf(W_break_insert, clock + 1), location,
                                      flags, condition, ignorecount, threadid)
        IN  call' = [fn |-> "Break_insert", location |-> location, flags |-> flags,
                     condition |-> condition, ignorecount |-> ignorecount,
                     threadid |-> threadid, token |-> c.token, wire |-> dump_mi(c),
                     out |-> Break_insert_result(sendReturn(reply))]
    /\ UNCHANGED progVars

\* the operations that build options, on a sender of their own
NextEncode ==
    \/ ExecRunCall
    \/ BreakInsertCall

SpecEncode == Init /\ [][NextEncode]_vars

\* the decoder: a debugger that writes async records of every class, the
\* reader, the coordinator and the consumer of gdb.Event
NextDecode ==
    \/ CoordResult
    \/ ReaderRead
    \/ \E p \in eventPubs : EventRecv(p)
    \/ \E l \in DecodeLines : DbgEmit(l, MaxOut)

SpecDecode == Init /\ [][NextDecode]_vars

(***************************************************************************)
(* Shared vocabulary of the claims.                                        *)
(***************************************************************************)
\* the caller task and the ordinal of the command that stdin line i carries
LineCaller(i) == stdin[i].by[1]
LineOrdinal(i) == stdin[i].by[2]

\* gdbsend has returned for the command of stdin line i
Returned(i) == Len(ret[LineCaller(i)]) >= LineOrdinal(i)

\* what gdbsend returned for the command of stdin line i
ReturnOf(i) == ret[LineCaller(i)][LineOrdinal(i)]

\* every line the debugger wrote has been read and handled, and the
\* coordinator is back in its select
Quiescent == nread = Len(emitted) /\ rdpc = "read" /\ copc = "select"

\* the debugger has emitted at most one Result record per command
NoRepeat == \A i \in DOMAIN replies : replies[i] <= 1

(***************************************************************************)
(* C1. Correlation: when the commands in flight carry pairwise distinct    *)
(* tokens and the debugger emits one Result record per command, in any     *)
(* order, then (a) what a caller receives is the record the debugger       *)
(* emitted for that caller's command, (b) the coordinator never sends to   *)
(* a reply channel nobody receives on, and (c) once everything emitted is  *)
(* handled every answered command has returned.                            *)
(***************************************************************************)
Correlation ==
    (~overlap /\ NoRepeat) =>
        /\ \A i \in DOMAIN stdin :
              Returned(i) => /\ ReturnOf(i).rsp.src \in DOMAIN emitted
                             /\ emitted[ReturnOf(i).rsp.src].re = i
                             /\ ReturnOf(i).rsp.token = ReturnOf(i).token
        /\ copc = "deliver" =>
              \E c \in Callers : pc[c] = "wait" /\ cmd[c].result = coWaiting.result
        /\ Quiescent => \A i \in DOMAIN stdin : replies[i] = 1 => Returned(i)

\* two commands of two callers were in flight together with distinct tokens,
\* the debugger answered the second one written first, and both returned
CorrelationWitness ==
    /\ ~overlap /\ NoRepeat
    /\ Len(stdin) = 2 /\ LineCaller(1) # LineCaller(2)
    /\ Returned(1) /\ Returned(2)
    /\ ReturnOf(1).token # ReturnOf(2).token
    /\ ReturnOf(2).rsp.src < ReturnOf(1).rsp.src
    /\ \A i \in 1..2 : emitted[ReturnOf(i).rsp.src].re = i

(***************************************************************************)
(* C2. For a given token the Result record is delivered to exactly one     *)
(* awaiter, in every interleaving of submissions and records: a record    *)
(* the debugger emits for a command is never received twice, the           *)
(* coordinator never sends it to a channel nobody receives on, and once    *)
(* it is handled one awaiter has it.                                       *)
(***************************************************************************)
\* the returns of gdbsend that carry the record of stdout line s
Receivers(s) == {x \in Callers \X (1..Len(stdin)) :
                    x[2] <= Len(ret[x[1]]) /\ ret[x[1]][x[2]].rsp.src = s}

\* the coordinator is done with stdout line s
Handled(s) == /\ nread >= s
              /\ ~(rdpc = "send" /\ Head(rdQueue).src = s)
              /\ ~(copc = "deliver" /\ coRsp.src = s)

ExactlyOneAwaiter ==
    \A s \in DOMAIN emitted : emitted[s].re # 0 =>
        /\ Cardinality(Receivers(s)) <= 1
        /\ (copc = "deliver" /\ coRsp.src = s) =>
              \E c \in Callers : pc[c] = "wait" /\ cmd[c].result = coWaiting.result
        /\ Handled(s) => Cardinality(Receivers(s)) = 1

(***************************************************************************)
(* C3. Token monotonicity: the tokens of the commands one caller submits   *)
(* one after the other are strictly increasing on the debugger's stdin.    *)
(***************************************************************************)
WireToken(i) == ParseInt(CommandToken(stdin[i].line))

TokenMonotone ==
    \A i, j \in DOMAIN stdin :
        (i < j /\ LineCaller(i) = LineCaller(j)) => WireToken(i) < WireToken(j)

(***************************************************************************)
(* C8. An untokenised ^done record taken by the coordinator while one      *)
(* command is pending resolves the awaiter of that command with class      *)
(* done and an empty remainder.                                            *)
(***************************************************************************)
\* this step is the coordinator receiving the response at the head of the
\* reader's queue
TakesResponse == copc = "select" /\ rdpc = "send" /\ rdQueue' = Tail(rdQueue)

\* caller c awaits the only pending command
ThePending(c) ==
    /\ pc[c] = "wait"
    /\ cmd[c].token \in DOMAIN open_commands
    /\ open_commands[cmd[c].token].result = cmd[c].result
    /\ \A o \in Callers \ {c} : pc[o] = "idle"

UntokenisedDoneResolves ==
    [][\A c \in Callers :
          (TakesResponse /\ emitted[Head(rdQueue).src].line = L_done /\ ThePending(c))
          => /\ copc' = "deliver"
             /\ coWaiting'.result = cmd[c].result
             /\ gdbsendReturn(coRsp').Type = Result_done
             /\ gdbsendReturn(coRsp').Results = EmptyText]_vars

(***************************************************************************)
(* C9. Orphan results: a Result record whose token is absent or not in     *)
(* the pending table is delivered to no awaiter and is surfaced (an        *)
(* event, a stream item or a printed warning), not silently discarded.     *)
(***************************************************************************)
OrphanResult(r) ==
    /\ r.kind = "result"
    /\ \/ DigitPrefixLen(emitted[r.src].line) = 0
       \/ r.token \notin DOMAIN open_commands

OrphanSurfaced ==
    [][(TakesResponse /\ OrphanResult(Head(rdQueue)))
       => /\ copc' = "select"
          /\ \/ eventPubs' # eventPubs
             \/ targetPubs' # targetPubs
             \/ logged' # logged]_vars

(***************************************************************************)
(* C7. A Result record of class error makes gdbsend return an error that   *)
(* carries the debugger's message, and the session keeps running: the      *)
(* coordinator stays in its loop with the command inbox open, and every    *)
(* answered command, also one submitted after the error, has returned      *)
(* once the coordinator has handled what the debugger wrote.               *)
(***************************************************************************)
\* stdout line s is the error record the debugger answered a command with
IsErrorReply(s) ==
    /\ s \in DOMAIN emitted /\ emitted[s].re # 0
    /\ emitted[s].line = CommandToken(stdin[emitted[s].re].line) \o L_error

ErrorReturned(i) == Returned(i) /\ IsErrorReply(ReturnOf(i).rsp.src)

ErrorResolves ==
    /\ \A i \in DOMAIN stdin :
          ErrorReturned(i) => /\ ReturnOf(i).out.err
                              /\ ReturnOf(i).out.msg = W_msg
                              /\ emitted[ReturnOf(i).rsp.src].re = i
    /\ (nclose = 0 /\ \E i \in DOMAIN stdin : ErrorReturned(i)) =>
          /\ ~crashed /\ copc # "exit" /\ commands = "open"
          /\ Quiescent => \A i \in DOMAIN stdin : replies[i] = 1 => Returned(i)

\* a command answered with error, then a second command of the same caller
\* answered with done
ErrorThenDone ==
    /\ Len(ret[1]) = 2
    /\ ErrorReturned(1)
    /\ ~ret[1][2].out.err /\ ret[1][2].out.Type = Result_done
    /\ emitted[ret[1][2].rsp.src].re = 2

(***************************************************************************)
(* C5. Shutdown of pending operations: once the coordinator has acted on   *)
(* Close, no operation is still awaiting a reply.                          *)
(***************************************************************************)
PendingResolvedOnClose ==
    (copc = "exit" /\ quit = "closed") => \A c \in Callers : pc[c] # "wait"

(***************************************************************************)
(* C6. Operations after shutdown: a command created after Close was called *)
(* is not written to stdin and does not crash its caller.                  *)
(***************************************************************************)
OperationsAfterClose ==
    \A c \in Callers :
        cmd[c].late => /\ pc[c] # "panic"
                       /\ \A i \in DOMAIN stdin : stdin[i].by # cmd[c].result

(***************************************************************************)
(* C4. Ordering: the consumer of gdb.Event receives the events, and the    *)
(* consumer of gdb.Target the stream records, in the order the reader read *)
(* their lines.                                                            *)
(***************************************************************************)
InReadOrder(got) == \A i, j \in DOMAIN got : i < j => got[i].src < got[j].src

EventOrder == InReadOrder(eventGot) /\ InReadOrder(targetGot)

(***************************************************************************)
(* C10. Every console, target and log stream record the coordinator        *)
(* receives is published for the stream consumer.                          *)
(***************************************************************************)
StreamsPublished ==
    [][(TakesResponse /\ Head(rdQueue).kind \in {"console", "target", "log"})
       => \E p \in targetPubs' \ targetPubs : p.src = Head(rdQueue).src]_vars

(***************************************************************************)
(* Vocabulary of the classifier claims: the classification table.          *)
(***************************************************************************)
\* the sentinel of a trimmed line: the character after the optional token
\* for ^ * + =, the first character for ~ @ &, "none" otherwise
SentinelOf(l) ==
    LET n == DigitPrefixLen(l)
    IN  IF Len(l) > n /\ l[n + 1] \in {"^", "*", "+", "="} THEN l[n + 1]
        ELSE IF l # <<>> /\ l[1] \in {"~", "@", "&"} THEN l[1]
        ELSE "none"

\* the classification table: Prompt is the exact line (gdb), Raw a line
\* with no sentinel
IsPromptLine(l) == l = W_gdb
IsRawLine(l) == l # <<>> /\ ~IsPromptLine(l) /\ SentinelOf(l) = "none"

\* the trimmed text of stdout line s
Trimmed(s) == TrimSpace(emitted[s].line)

\* what the consumer of gdb.Target has received or is about to receive
TargetItems == targetPubs \cup {targetGot[i] : i \in DOMAIN targetGot}

\* this step is the reader reading the next line of stdout
ReadsLine == rdpc = "read" /\ nread' = nread + 1

(***************************************************************************)
(* C11. A line with no sentinel (Raw) that the session has handled is      *)
(* published on gdb.Target with the whole trimmed line as its payload; it  *)
(* is never dropped.                                                       *)
(***************************************************************************)
RawPublished ==
    \A s \in DOMAIN emitted :
        (IsRawLine(Trimmed(s)) /\ Handled(s)) =>
            \E p \in TargetItems : p.src = s /\ p.Line = Trimmed(s)

(***************************************************************************)
(* C12. Classifier totality: for a non-empty line the reader forwards at   *)
(* most one record, none only for a prompt, and it forwards the Raw        *)
(* record (a target record holding the whole line) if and only if the      *)
(* line has none of the seven sentinels.                                   *)
(***************************************************************************)
ForwardsRaw(q, l) == q # <<>> /\ q[1].kind = "target" /\ q[1].line = l

ClassifierTotality ==
    [][ReadsLine =>
          LET l == Trimmed(nread')
          IN  l # <<>> =>
                /\ Len(rdQueue') <= 1
                /\ rdQueue' = <<>> => IsPromptLine(l)
                /\ ForwardsRaw(rdQueue', l) <=> IsRawLine(l)]_vars

(***************************************************************************)
(* C13. The reader discards a line as the prompt only when the trimmed     *)
(* line is exactly (gdb); a line with a sentinel whose payload holds the   *)
(* text (gdb) is forwarded as the record of its sentinel.                  *)
(***************************************************************************)
PromptExact ==
    [][ReadsLine =>
          LET l == Trimmed(nread')
          IN  /\ rdQueue' = <<>> => IsPromptLine(l)
              /\ (SentinelOf(l) # "none" /\ Contains(l, W_gdb)) =>
                    /\ Len(rdQueue') = 1
                    /\ rdQueue'[1].src = nread'
                    /\ rdQueue'[1].kind = (CASE SentinelOf(l) = "^" -> "result"
                                             [] SentinelOf(l) = "~" -> "console"
                                             [] SentinelOf(l) = "@" -> "target"
                                             [] SentinelOf(l) = "&" -> "log"
                                             [] OTHER -> "async")]_vars

(***************************************************************************)
(* C14. A malformed line never kills the session: when the coordinator     *)
(* takes the record of an async line with no payload, with a comma inside  *)
(* a quoted value or with a field lacking "=", the process keeps running   *)
(* and the coordinator is back in its select.                              *)
(***************************************************************************)
\* the line of stdout the response at the head of the reader's queue came from
TakenLine == emitted[Head(rdQueue).src].line

MalformedSkipped ==
    [][(TakesResponse /\ TakenLine \in MalformedLines)
       => ~crashed' /\ copc' = "select"]_vars

(***************************************************************************)
(* C15. An async record of a class that is not in the table yields one     *)
(* event of type Async_unknown for the consumer of gdb.Event, and does     *)
(* not end the process.                                                    *)
(***************************************************************************)
\* the events this step hands to publisher goroutines
NewEvents == eventPubs' \ eventPubs

UnknownClassEvent ==
    [][(TakesResponse /\ TakenLine \in UnknownLines)
       => /\ ~crashed'
          /\ Cardinality(NewEvents) = 1
          /\ \A p \in NewEvents : p.src = Head(rdQueue).src /\ p.ev.Type = Async_unknown]_vars

(***************************************************************************)
(* C20. A stopped record with a nested frame tuple decodes to exactly one  *)
(* Stopped event whose ThreadId, StoppedThreads, StopCore and StopReason   *)
(* are the values of the top-level keys thread-id, stopped-threads, core   *)
(* and reason, whatever the frame holds.                                   *)
(***************************************************************************)
StoppedTopLevel ==
    [][(TakesResponse /\ TakenLine \in NestedStoppedLines)
       => /\ ~crashed'
          /\ Cardinality(NewEvents) = 1
          /\ \A p \in NewEvents :
                /\ p.src = Head(rdQueue).src
                /\ p.ev.Type = Async_stopped
                /\ p.ev.StopReason = Async_stopped_breakpoint_hit
                /\ p.ev.ThreadId = <<"1">>
                /\ p.ev.StoppedThreads = <<"a", "l", "l">>
                /\ p.ev.StopCore = <<"0">>]_vars

(***************************************************************************)
(* C16. The end of stdout is treated like Close: when the coordinator has  *)
(* ended without Close having been called, the session is in the state     *)
(* Close leaves it in: gdb.Event, gdb.Target and gdb.commands are closed    *)
(* and no caller is still awaiting a reply.                                *)
(***************************************************************************)
EOFLikeClose ==
    (copc = "exit" /\ quit = "open") =>
        /\ result = "closed"
        /\ Event = "closed" /\ Target = "closed" /\ commands = "closed"
        /\ \A c \in Callers : pc[c] # "wait"

(***************************************************************************)
(* C17. A failed write to the debugger's stdin is fatal: once the          *)
(* coordinator is done with a command whose write returned an error, the   *)
(* command inbox is closed and the caller of that command is not left      *)
(* awaiting a reply.                                                       *)
(***************************************************************************)
\* the coordinator is done with the command of stdin line i
Submitted(i) == ~(copc = "insert" /\ coCmd.result = stdin[i].by)

WriteErrorFatal ==
    \A i \in DOMAIN stdin :
        (stdin[i].err /\ Submitted(i)) =>
            /\ commands = "closed"
            /\ ~(pc[LineCaller(i)] = "wait" /\ cmd[LineCaller(i)].result = stdin[i].by)

(***************************************************************************)
(* C18. Backpressure: the events and stream records handed over for        *)
(* publication and not yet received never exceed the bound of their        *)
(* channel by more than the one send in progress.                          *)
(***************************************************************************)
Backpressure ==
    /\ Cardinality(eventPubs) <= EventCap + 1
    /\ Cardinality(targetPubs) <= TargetCap + 1

(***************************************************************************)
(* C19. No deadlock under a slow consumer: as long as the consumer of      *)
(* gdb.Event receives in the end, a backlog of emitted events is fully     *)
(* delivered in the end, every command submitted is written to the         *)
(* debugger's stdin, and every command the debugger answered returns.      *)
(***************************************************************************)
EventDelivered(s) == \E k \in DOMAIN eventGot : eventGot[k].src = s

\* an event the debugger emitted has not reached the consumer
Backlog == \E s \in DOMAIN emitted : emitted[s].re = 0 /\ ~EventDelivered(s)

\* a command the debugger answered has not returned
Unanswered == \E i \in DOMAIN stdin : replies[i] = 1 /\ ~Returned(i)

SlowConsumerLive ==
    /\ Backlog ~> ~Backlog
    /\ (pc[1] = "send") ~> (pc[1] = "wait")
    /\ Unanswered ~> ~Unanswered

\* two events were waiting for the consumer together (it received the later
\* one first), all are delivered, and a command answered after them returned
SlowConsumerDrained ==
    /\ eventPubs = {} /\ Len(eventGot) >= 2
    /\ eventGot[1].src > eventGot[2].src
    /\ \E i \in DOMAIN stdin : Returned(i) /\ ReturnOf(i).rsp.src > eventGot[1].src

(***************************************************************************)
(* C21. An async record of class breakpoint-created, breakpoint-modified   *)
(* or breakpoint-deleted yields one event of the matching type, with       *)
(* BreakpointNumber taken from the payload, for the consumer of gdb.Event. *)
(***************************************************************************)
\* the class of an async line: the text between the sentinel and the comma
ClassOfLine(l) == SplitN2(Tail(l), ",")[1]

BreakpointEvents ==
    [][(TakesResponse /\ TakenLine \in BreakpointLines)
       => /\ Cardinality(NewEvents) = 1
          /\ \A p \in NewEvents :
                /\ p.src = Head(rdQueue).src
                /\ AsyncTypeString(p.ev.Type) = ClassOfLine(TakenLine)
                /\ p.ev.BreakpointNumber = <<"1">>]_vars

(***************************************************************************)
(* C22. A memory-changed record yields an event whose ThreadGroupid,       *)
(* MemoryAddress, MemoryLen and MemoryTypeCode come from the keys          *)
(* thread-group, addr, len and type of the payload.                        *)
(***************************************************************************)
MemoryChangedEvent ==
    [][(TakesResponse /\ TakenLine = L_memory_changed)
       => /\ Cardinality(NewEvents) = 1
          /\ \A p \in NewEvents :
                /\ p.ev.Type = Async_memory_changed
                /\ p.ev.ThreadGroupid = <<"i", "1">>
                /\ p.ev.MemoryTypeCode
                /\ p.ev.MemoryAddress = 4096
                /\ p.ev.MemoryLen = 4]_vars

(***************************************************************************)
(* C23. Every event handed to the consumer of gdb.Event has the type of a  *)
(* named async class, and every field its class does not populate is at    *)
(* its zero value.                                                         *)
(***************************************************************************)
EventFields == DOMAIN ZeroEvent

\* the table of the async decoder: the fields a class populates
PopulatedFields(t) ==
    CASE t = Async_running -> {"ThreadId"}
      [] t = Async_stopped -> {"ThreadId", "StoppedThreads", "StopCore", "StopReason"}
      [] t \in {Async_thread_group_added, Async_thread_group_removed} -> {"ThreadGroupid"}
      [] t = Async_thread_group_started -> {"ThreadGroupid", "Pid"}
      [] t = Async_thread_group_exited -> {"ThreadGroupid", "ExitCode"}
      [] t \in {Async_thread_created, Async_thread_exited, Async_thread_selected}
            -> {"ThreadId", "ThreadGroupid"}
      [] t = Async_traceframe_changed -> {"TraceFrameNumber", "TracePointNumber"}
      [] t \in {Async_tsv_created, Async_tsv_deleted, Async_tsv_modified}
            -> {"TsvName", "TsvInitial", "TsvValue"}
      [] t \in {Async_record_started, Async_record_stopped} -> {"ThreadGroupid"}
      [] t = Async_cmd_param_changed -> {"CmdParam", "CmdValue"}
      [] t = Async_memory_changed
            -> {"ThreadGroupid", "MemoryAddress", "MemoryLen", "MemoryTypeCode"}
      [] t \in {Async_breakpoint_created, Async_breakpoint_modified, Async_breakpoint_deleted}
            -> {"BreakpointNumber"}
      [] OTHER -> {}

\* the events handed over for publication or received by the consumer
EventItems == eventPubs \cup {eventGot[i] : i \in DOMAIN eventGot}

EventWellFormed ==
    \A p \in EventItems :
        /\ AsyncTypeString(p.ev.Type) # EmptyText
        /\ \A f \in EventFields \ (PopulatedFields(p.ev.Type) \cup {"Type"}) :
              p.ev[f] = ZeroEvent[f]

\* the consumer has received a Stopped event and a thread-group-started
\* event, each with the fields of its class set
EventWellFormedWitness ==
    \E i, j \in DOMAIN eventGot :
        /\ eventGot[i].ev.Type = Async_stopped
        /\ eventGot[i].ev.StopReason = Async_stopped_breakpoint_hit
        /\ eventGot[i].ev.ThreadId = <<"1">>
        /\ eventGot[j].ev.Type = Async_thread_group_started
        /\ eventGot[j].ev.Pid = 42


(***************************************************************************)
(* C24. Parsing a quoted string with legal escapes returns the unescaped   *)
(* contents of the string.                                                 *)
(***************************************************************************)
\* the value the wire format gives a text: a c-string is its contents, a
\* list the sequence of its elements with a singleton tuple for every
\* key=value element, a tuple the mapping of its keys
RECURSIVE Denote(_)
Denote(x) ==
    CASE x.t = "string" -> StringValue(x.s)
      [] x.t = "list" -> ArrayValue([i \in 1..Len(x.es) |-> Denote(x.es[i])])
      [] x.t = "result" -> createAnonymousStruct(x.k, Denote(x.v))
      [] x.t = "tuple" ->
            StructValue([k \in {x.fs[i].k : i \in DOMAIN x.fs} |->
                            Denote(x.fs[CHOOSE i \in DOMAIN x.fs : x.fs[i].k = k].v)])

\* the call returned a value, and it is v
Returns(v) == call.out.st = "ok" /\ call.out.val.t = v.t /\ call.out.val = v

QuotedRoundTrip ==
    (call.fn = "parseValue" /\ call.tree \in StringInputs) => Returns(Denote(call.tree))

(***************************************************************************)
(* C25. The value parser ends on every input: it returns the value of a    *)
(* balanced input, empty tuples and empty lists included, and reports an   *)
(* error for a malformed one; it never loops and never panics.             *)
(***************************************************************************)
ParserTerminates ==
    /\ (call.fn = "parseValue" /\ call.tree \in BalancedInputs) => Returns(Denote(call.tree))
    /\ (call.fn = "parseValue" /\ call.tree = NoTree) => call.out.st = "error"

(***************************************************************************)
(* C26. A list is parsed element by element: a key=value element becomes   *)
(* a singleton tuple, a bare value is appended as it is, in the order of   *)
(* the input and with one element of the result per element of the list.   *)
(***************************************************************************)
ListElements ==
    (call.fn = "parseStructureArray" /\ call.tree \in ListInputs)
    => /\ Returns(Denote(call.tree))
       /\ Len(call.out.val.a) = Len(call.tree.es)

(***************************************************************************)
(* C27. Parsing a tuple yields a mapping with exactly the keys of the      *)
(* tuple, a key with "-" being one key; a quoted value maps to its         *)
(* contents without the quotes and the list ["i1"] to a sequence of one    *)
(* element.                                                                *)
(***************************************************************************)
TupleKeysAndValues ==
    (call.fn = "parseStructure" /\ call.tree \in TupleInputs)
    => /\ call.out.st = "ok" /\ call.out.val.t = "gdbStruct"
       /\ DOMAIN call.out.val.m = {call.tree.fs[i].k : i \in DOMAIN call.tree.fs}
       /\ \A i \in DOMAIN call.tree.fs :
            LET got == call.out.val.m[call.tree.fs[i].k]
                src == call.tree.fs[i].v
            IN  IF src.t = "string"
                THEN got = StringValue(src.s)
                ELSE /\ got.t = "array" /\ Len(got.a) = 1
                     /\ got.a[1] = StringValue(<<"i", "1">>)

\* the tuple number="1",thread-groups=["i1"],original-location="main" has
\* been parsed into a mapping of three keys
TupleKeysAndValuesWitness ==
    /\ call.fn = "parseStructure"
    /\ call.tree = MITuple(<<MIResult(K_number, MIString(<<"1">>)),
                             MIResult(K_thread_groups, MIList(<<MIString(<<"i", "1">>)>>)),
                             MIResult(K_original_location, MIString(<<"m", "a", "i", "n">>))>>)
    /\ call.out.st = "ok"
    /\ Cardinality(DOMAIN call.out.val.m) = 3
    /\ call.out.val.m[K_thread_groups].a = <<StringValue(<<"i", "1">>)>>


(***************************************************************************)
(* C28. Environment_path, Environment_directory and Environment_pwd        *)
(* return, for a done result whose payload is the prefix followed by a     *)
(* quoted text, exactly the text between the quotes.                       *)
(***************************************************************************)
EnvironmentValue ==
    (call.fn = "environment_path_query" /\ ~call.failed) => call.out = Value(call.arg)

\* Environment_pwd has returned the path "/a," of the reply cwd="/a,"
EnvironmentValueWitness ==
    /\ call.fn = "environment_path_query" /\ ~call.failed
    /\ call.gfunc = W_environment_pwd
    /\ call.arg = <<"/", "a", ",">>
    /\ call.out.st = "ok" /\ call.out.val = <<"/", "a", ",">>

(***************************************************************************)
(* C29. A Breakpoint, StackFrame or FrameArgument populated from a tuple   *)
(* takes each field from its key; a missing key leaves the field at its    *)
(* default (empty string, zero, false) and never makes the projection      *)
(* fail.                                                                   *)
(***************************************************************************)
\* the contents of the string at key k of the tuple x, the empty text when
\* the key is missing
FieldText(x, k) ==
    IF \E i \in DOMAIN x.fs : x.fs[i].k = k
    THEN x.fs[CHOOSE i \in DOMAIN x.fs : x.fs[i].k = k].v.s
    ELSE EmptyText

HasField(x, k) == \E i \in DOMAIN x.fs : x.fs[i].k = k

\* the number a text of digits stands for, zero for the empty text
FieldInt(x, k) == IF FieldText(x, k) = EmptyText THEN 0 ELSE ParseInt(FieldText(x, k))

ProjectionDefaults ==
    /\ call.fn = "parseBreakpointInfo"
       => /\ call.out.st = "ok"
          /\ LET b == call.out.val
                 x == call.tree
             IN  /\ b.Number = FieldText(x, K_number)
                 /\ HasField(x, K_type) => b.Type = BP_breakpoint
                 /\ HasField(x, K_disp) => b.Disposition = BP_breakpointDisposition_keep
                 /\ b.Enabled = (FieldText(x, K_enabled) = <<"y">>)
                 /\ b.Function = FieldText(x, K_func)
                 /\ b.Line = FieldInt(x, K_line)
                 /\ b.OriginalLocation = FieldText(x, K_original_location)
                 /\ b.Address = EmptyText /\ b.Filename = EmptyText /\ b.Fullname = EmptyText
                 /\ b.At = EmptyText /\ b.Pending = EmptyText /\ b.Thread = EmptyText
                 /\ b.Condition = EmptyText /\ b.Mask = EmptyText
                 /\ b.Ignore = 0 /\ b.Enable = 0 /\ b.Pass = 0 /\ b.Times = 0
                 /\ ~b.Installed
    /\ call.fn = "parseStackFrameInfo"
       => /\ call.out.st = "ok"
          /\ LET f == call.out.val
                 x == call.tree
             IN  /\ f.Level = FieldInt(x, K_level)
                 /\ f.Line = FieldInt(x, K_line)
                 /\ f.Function = FieldText(x, K_func)
                 /\ f.Address = FieldText(x, K_addr)
                 /\ f.File = FieldText(x, K_file)
                 /\ f.From = EmptyText /\ f.Fullname = EmptyText
    /\ call.fn = "parseFrameArguments"
       => /\ call.out.st = "ok"
          /\ Len(call.out.val) = Len(call.tree.es)
          /\ \A i \in DOMAIN call.tree.es :
                /\ call.out.val[i].Name = FieldText(call.tree.es[i], K_name)
                /\ call.out.val[i].Type = FieldText(call.tree.es[i], K_type)
                /\ call.out.val[i].Value = FieldText(call.tree.es[i], K_value)

(***************************************************************************)
(* C30. The line of a command is the token, "-" and the operation, then    *)
(* every option as the flag the operation names (with its value behind     *)
(* it), then every parameter, in the order of insertion: exec-run with all *)
(* emits --all, break-insert with istemp emits -t.                         *)
(***************************************************************************)
\* the words of a line: strings.Fields for the separator " "
Fields(s) == SelectSeq(Split(s, " "), LAMBDA w : w # EmptyText)

\* an option of the wire form: a flag, and a value or none
Flag(flg, name) == IF flg THEN <<<<name>>>> ELSE <<>>
FlagValue(name, ptr, text) == IF ptr.nil THEN <<>> ELSE <<<<name, text>>>>

\* the words of the wire form of a command
RECURSIVE Flatten(_)
Flatten(seqs) == IF seqs = <<>> THEN <<>> ELSE Head(seqs) \o Flatten(Tail(seqs))

WireWords(token, operation, options, parameters) ==
    <<Itoa(token) \o <<"-">> \o operation>> \o Flatten(options) \o parameters

EncoderWire ==
    /\ call.fn = "Exec_run"
       => Fields(call.wire) =
            WireWords(call.token, W_exec_run,
                      Flag(call.all, O_all)
                        \o FlagValue(O_thread_group, call.threadgroup,
                                     IF call.threadgroup.nil THEN EmptyText
                                     ELSE Itoa(call.threadgroup.v)),
                      <<>>)
    /\ call.fn = "Break_insert"
       => Fields(call.wire) =
            WireWords(call.token, W_break_insert,
                      Flag(call.flags["istemp"], <<"-", "t">>)
                        \o Flag(call.flags["ishw"], <<"-", "h">>)
                        \o Flag(call.flags["createpending"], <<"-", "f">>)
                        \o Flag(call.flags["disabled"], <<"-", "d">>)
                        \o Flag(call.flags["tracepoint"], <<"-", "a">>)
                        \o FlagValue(<<"-", "c">>, call.condition,
                                     IF call.condition.nil THEN EmptyText ELSE call.condition.v)
                        \o FlagValue(<<"-", "i">>, call.ignorecount,
                                     IF call.ignorecount.nil THEN EmptyText
                                     ELSE Itoa(call.ignorecount.v))
                        \o FlagValue(<<"-", "p">>, call.threadid,
                                     IF call.threadid.nil THEN EmptyText
                                     ELSE Itoa(call.threadid.v)),
                      <<call.location>>)


(***************************************************************************)
(* C31. Pending table lifetime: once the coordinator has handled           *)
(* everything the debugger wrote, the pending table holds exactly the      *)
(* tokens of the commands that were written to stdin and have no Result    *)
(* record yet.                                                             *)
(***************************************************************************)
\* the tokens of the commands written to stdin the debugger has not answered
SentUnanswered == {WireToken(i) : i \in {j \in DOMAIN stdin : replies[j] = 0}}

PendingTableExact == Quiescent => DOMAIN open_commands = SentUnanswered


(***************************************************************************)
(* C32. The coordinator never blocks forever delivering a Result record:   *)
(* with pairwise distinct tokens in flight, whenever the coordinator is    *)
(* sending a record on the reply channel of a pending-table entry, a       *)
(* caller is receiving on that channel; this also holds for a second       *)
(* Result record with the token of a command that was already answered.    *)
(***************************************************************************)
\* a caller is blocked in <-cmd.result on the channel the coordinator sends on
ReceiverReady == \E c \in Callers : pc[c] = "wait" /\ cmd[c].result = coWaiting.result

DeliveryNeverBlocks == (~overlap /\ copc = "deliver") => ReceiverReady


(***************************************************************************)
(* Shutdown with traffic: one caller, a debugger that writes async and     *)
(* stream records, the two consumers, Close, and the goroutines the        *)
(* coordinator started for records it took before it closed the channels.  *)
(***************************************************************************)
NextShutdown ==
    \/ CallerNewCommand(1)
    \/ CallerSendClosed(1)
    \/ Close
    \/ CoordCommand(1)
    \/ CoordInsert
    \/ CoordQuit
    \/ CoordResult
    \/ CoordDeliver(1)
    \/ ReaderRead
    \/ \E p \in eventPubs : EventRecv(p)
    \/ \E p \in targetPubs : TargetRecv(p)
    \/ PublisherPanic
    \/ \E i \in 1..MaxCmds : DbgReply(i, L_done)
    \/ \E l \in StreamLines : DbgEmit(l, MaxOut)

SpecShutdown == Init /\ [][NextShutdown]_vars

(***************************************************************************)
(* C33. No send is attempted on a closed channel: once the coordinator     *)
(* has closed gdb.Event, gdb.Target and gdb.commands, no goroutine started *)
(* for an earlier event or stream record is still in its send on           *)
(* gdb.Event or gdb.Target, and no caller is in its send on gdb.commands.  *)
(***************************************************************************)
NoSendOnClosed ==
    /\ Event = "closed" => eventPubs = {}
    /\ Target = "closed" => targetPubs = {}
    /\ commands = "closed" => \A c \in Callers : pc[c] \notin {"send", "panic"}


(***************************************************************************)
(* C34. The tokens of the commands that are in flight at the same time     *)
(* are pairwise distinct, also for commands created by different callers,  *)
(* and the pending-table entry of a command whose caller is waiting is     *)
(* the entry of that command.                                              *)
(***************************************************************************)
\* caller c has created a command and has not yet received its reply
InFlight(c) == pc[c] \in {"send", "wait"}

\* the coordinator has inserted the command caller c waits for
Inserted(c) == pc[c] = "wait" /\ ~(copc = "insert" /\ coCmd.result = cmd[c].result)

InFlightDistinct ==
    /\ \A c, o \in Callers :
          (c # o /\ InFlight(c) /\ InFlight(o)) => cmd[c].token # cmd[o].token
    /\ \A c \in Callers :
          Inserted(c) => /\ cmd[c].token \in DOMAIN open_commands
                         /\ open_commands[cmd[c].token].result = cmd[c].result


(***************************************************************************)
(* A running session that is never closed: two callers, a debugger that    *)
(* answers each command at most once and writes async and stream records   *)
(* in between, and consumers that may or may not receive.  The             *)
(* coordinator, the reader and the callers are goroutines the scheduler    *)
(* runs whenever they can take a step; nothing is assumed of the           *)
(* consumers or of the debugger.                                           *)
(***************************************************************************)
LiveLines == {L_running, L_target}

NextLive ==
    \/ \E c \in Callers : CallerNewCommand(c)
    \/ \E c \in Callers : CoordCommand(c)
    \/ CoordInsert
    \/ CoordResult
    \/ \E c \in Callers : CoordDeliver(c)
    \/ ReaderRead
    \/ \E p \in eventPubs : EventRecv(p)
    \/ \E p \in targetPubs : TargetRecv(p)
    \/ \E i \in 1..MaxCmds : DbgReply(i, L_done)
    \/ \E l \in LiveLines : DbgEmit(l, MaxOut)

FairLive ==
    /\ WF_vars(\E c \in Callers : CoordCommand(c))
    /\ WF_vars(CoordInsert)
    /\ FairCoordResult
    /\ WF_vars(\E c \in Callers : CoordDeliver(c))
    /\ FairReaderRead

SpecLive == Init /\ [][NextLive]_vars /\ FairLive

(***************************************************************************)
(* C35. Liveness of a command: in a running session that is not closed,    *)
(* every command a caller submits is written to stdin in the end, and      *)
(* every command for which the debugger has emitted a Result record with   *)
(* its token returns to its caller in the end, however the async and       *)
(* stream records are interleaved and whether or not the consumers of      *)
(* gdb.Event and gdb.Target receive.                                       *)
(***************************************************************************)
CommandLive ==
    /\ \A c \in Callers : (pc[c] = "send") ~> (pc[c] # "send")
    /\ \A i \in 1..MaxCmds :
          (i \in DOMAIN replies /\ replies[i] = 1) ~> (i \in DOMAIN stdin /\ Returned(i))


(***************************************************************************)
(* C36. Insert-before-lookup: whenever the coordinator looks up the token  *)
(* of a Result record, every command that was written to stdin has been    *)
(* inserted, and the pending table holds under that token the entry of     *)
(* the command written last with it; no Result record is processed         *)
(* between the write of a command and the insertion of its entry.          *)
(***************************************************************************)
\* this step is the coordinator taking a Result record off the reader
LooksUp == rdpc = "send" /\ rdQueue' = Tail(rdQueue) /\ Head(rdQueue).kind = "result"

\* the lines of stdin that carry token t
WrittenWith(t) == {i \in DOMAIN stdin : WireToken(i) = t}

\* the last of them
LastWritten(t) == CHOOSE i \in WrittenWith(t) : \A j \in WrittenWith(t) : j <= i

InsertBeforeLookup ==
    [][LooksUp =>
          LET t == Head(rdQueue).token
          IN  /\ \A i \in DOMAIN stdin : Submitted(i)
              /\ WrittenWith(t) # {} =>
                    /\ t \in DOMAIN open_commands
                    /\ open_commands[t].result = stdin[LastWritten(t)].by]_vars

\* the coordinator has looked up the record the debugger emitted for a
\* command and has found the entry of that command
LookupFound ==
    /\ copc = "deliver"
    /\ emitted[coRsp.src].re # 0
    /\ coWaiting.result = stdin[emitted[coRsp.src].re].by
    /\ coWaiting.token = coRsp.token

\* the reader holds the Result record of a command the coordinator has
\* written to stdin and not yet inserted
ResultBeforeInsert ==
    /\ copc = "insert" /\ rdpc = "send"
    /\ Head(rdQueue).kind = "result"
    /\ Head(rdQueue).token = coCmd.token
    /\ coCmd.token \notin DOMAIN open_commands


(***************************************************************************)
(* C37. Close is idempotent: a call of Close after an earlier call, or     *)
(* after the coordinator has stopped on the end of stdout, does not fail   *)
(* and changes no channel the earlier shutdown has closed and no caller.   *)
(***************************************************************************)
\* this step is a call of Close
CallsClose == nclose' = nclose + 1

\* the session was shut down before: Close was called, or the coordinator
\* returned on the closed record channel
ShutDownBefore == nclose >= 1 \/ (copc = "exit" /\ result = "closed")

CloseIdempotent ==
    [][(CallsClose /\ ShutDownBefore)
       => /\ ~crashed'
          /\ UNCHANGED <<commands, result, Event, Target, pc, copc>>]_vars


(***************************************************************************)
(* C38. The stdout reader always terminates: once the coordinator has      *)
(* returned, which is final, the reader is not in its send on the record   *)
(* channel, where nobody would ever receive from it again.                 *)
(***************************************************************************)
\* the reader is blocked in gdb.result <- rsp
ReaderForwarding == rdpc = "send"

ReaderTerminates == copc = "exit" => ~ReaderForwarding


(***************************************************************************)
(* Events of every kind for a consumer that tests StopReason: async        *)
(* records of classes other than stopped, a stopped record at a            *)
(* breakpoint, and the stopped records of an exit.                         *)
(***************************************************************************)
\* *stopped,reason="exited-signalled", "exited" and "exited-normally"
L_exited(i) == <<"*">> \o AsyncNames[2] \o <<",">> \o K_reason \o <<"=", "\"">> \o StopNames[i] \o <<"\"">>

ExitNames == {StopNames[9], StopNames[10], StopNames[11]}
ExitedLines == {L_exited(i) : i \in 9..11}
ReasonLines == {L_running, L_group_started, L_thread_created, L_memory_changed,
                L_stopped(F_plain)} \cup ExitedLines

NextReasons ==
    \/ CoordResult
    \/ ReaderRead
    \/ \E p \in eventPubs : EventRecv(p)
    \/ \E l \in ReasonLines : DbgEmit(l, MaxOut)

SpecReasons == Init /\ [][NextReasons]_vars

(***************************************************************************)
(* C39. For every event whose type is not Stopped, StopReason has its      *)
(* zero value, which is the number of no named stop reason, so the test    *)
(* of StopReason against exited, exited-normally and exited-signalled is   *)
(* false for it.                                                           *)
(***************************************************************************)
\* the numbers of the registered stop reasons
NamedStopReasons == {StopReasonWithName(StopNames[i]) : i \in 1..Len(StopNames)}

\* ev.StopReason == Async_stopped_exited || ... of the consumer's event loop
IsExit(ev) == ev.StopReason \in {StopReasonWithName(n) : n \in ExitNames}

ZeroStopReasonDistinct ==
    \A p \in EventItems :
        p.ev.Type # Async_stopped =>
            /\ p.ev.StopReason = ZeroEvent.StopReason
            /\ p.ev.StopReason \notin NamedStopReasons
            /\ ~IsExit(p.ev)

\* the consumer has received an event that is not a stop, for which the
\* exit test is false, and the Stopped event of an exit, for which it is true
ExitRecognised ==
    \E i, j \in DOMAIN eventGot :
        /\ eventGot[i].ev.Type # Async_stopped /\ ~IsExit(eventGot[i].ev)
        /\ eventGot[j].ev.Type = Async_stopped /\ IsExit(eventGot[j].ev)

====
